---- MODULE Spec2Model ----
(***************************************************************************)
(* Model of the gmqb query-to-code generator (package generator):         *)
(* Generate / GenerateFilter / GeneratePipeline and the recursive         *)
(* translators they call.  A decoded value is a tagged record, generated  *)
(* text is a sequence of tokens assembled exactly as the fmt.Sprintf and  *)
(* strings.Join calls of the source assemble it.                          *)
(***************************************************************************)
EXTENDS Integers, Sequences, FiniteSets, TLC

VARIABLES input, pc, raw, code, err

\* the goroutines calling Generate, and the first result seen for each value
VARIABLES call, observed

\* the slices' backing arrays, the builder values made so far, what was
\* seen through each when it was returned, and the chaining calls under way
VARIABLES heap, builders, derived, task

\* the CRUD wrapper's call and the calls that reached the driver collection
VARIABLES crud, driver

\* schemaCache, the goroutines inside Field, and the buildFieldMap runs
VARIABLES schemaCache, resolving, builds

genVars == <<input, pc, raw, code, err>>
callVars == <<call, observed>>
builderVars == <<heap, builders, derived, task>>
crudVars == <<crud, driver>>
fieldVars == <<schemaCache, resolving, builds>>

vars == <<genVars, callVars, builderVars, crudVars, fieldVars>>

\* no Generate call is under way
NoGenerate ==
    /\ input = [text |-> "none", val |-> [t |-> "invalid"]]
    /\ pc = "unused"
    /\ raw = <<>>
    /\ code = <<>>
    /\ err = [set |-> FALSE, msg |-> ""]

\* no goroutine is there to call Generate
NoCallers == call = <<>> /\ observed = {}

\* no builder was made
NoBuilders == heap = <<>> /\ builders = <<>> /\ derived = <<>> /\ task = <<>>

\* no wrapped collection is in use
NoCollection == crud = <<>> /\ driver = <<>>

\* Field is not in use
NoField == schemaCache = <<>> /\ resolving = <<>> /\ builds = <<>>

(***************************************************************************)
(* Decoded values (what bson.UnmarshalExtJSON produces inside a bson.D).   *)
(***************************************************************************)
Null == [t |-> "null"]
Bool(x) == [t |-> "bool", b |-> x]
Int32(x) == [t |-> "int32", n |-> x]
Int64(x) == [t |-> "int64", n |-> x]
\* a float64 with integral part ip and decimal digit fr (ip.fr)
Float64(i, f) == [t |-> "float64", ip |-> i, fr |-> f]
Str(x) == [t |-> "string", s |-> x]
Arr(x) == [t |-> "array", a |-> x]
Doc(x) == [t |-> "doc", d |-> x]
ObjectID(x) == [t |-> "objectid", hex |-> x]
\* a bson.Regex value
BsonRegex(p, o) == [t |-> "regex", pattern |-> p, options |-> o]
DateTime(x) == [t |-> "datetime", ms |-> x]
E(key, val) == [k |-> key, v |-> val]

IsArr(x) == x.t = "array"
IsDoc(x) == x.t = "doc"
IsStr(x) == x.t = "string"

(***************************************************************************)
(* Errors and results: a Go (string, error) pair.                          *)
(***************************************************************************)
NilErr == [set |-> FALSE, msg |-> ""]
Errorf(m) == [set |-> TRUE, msg |-> m]
Ret(text, e) == [code |-> text, err |-> e]
Ok(text) == Ret(text, NilErr)
Fail(m) == Ret(<<>>, Errorf(m))

(***************************************************************************)
(* Text helpers: strings.Join, strings.HasPrefix(_, "$"), %q and %T.       *)
(***************************************************************************)
RECURSIVE Join(_, _)
Join(parts, sep) ==
    IF Len(parts) = 0 THEN <<>>
    ELSE IF Len(parts) = 1 THEN parts[1]
    ELSE parts[1] \o sep \o Join(Tail(parts), sep)

\* the keys of the model that do not begin with '$' (field names and the
\* named sub-fields of structured expressions)
PlainKeys ==
    {"a", "b", "x\"y", "_id", "total", "input", "as", "cond", "in",
     "initialValue", "vars", "regex", "options", "find", "replacement",
     "chars", "if", "then", "else", "branches", "default", "db", "coll",
     "path"}

\* strings.HasPrefix(key, "$")
HasDollarPrefix(key) == key \notin PlainKeys

\* %q: the Go-quoted form of a string (the one string of the model that
\* holds a double quote is escaped)
GoQuote(s) == IF s = "x\"y" THEN "\"x\\\"y\"" ELSE "\"" \o s \o "\""

\* %T of a decoded value
GoTypeName(x) ==
    CASE x.t = "null" -> "<nil>"
      [] x.t = "bool" -> "bool"
      [] x.t = "int32" -> "int32"
      [] x.t = "int64" -> "int64"
      [] x.t = "float64" -> "float64"
      [] x.t = "string" -> "string"
      [] x.t = "array" -> "bson.A"
      [] x.t = "doc" -> "bson.D"
      [] x.t = "objectid" -> "bson.ObjectID"
      [] x.t = "regex" -> "bson.Regex"
      [] x.t = "datetime" -> "bson.DateTime"

\* index of the first failed result of a loop that returns on the first
\* error, 0 when none failed
FirstFailed(results) ==
    IF \E i \in 1..Len(results) : results[i].err.set
    THEN CHOOSE i \in 1..Len(results) :
            /\ results[i].err.set
            /\ \A j \in 1..(i - 1) : ~results[j].err.set
    ELSE 0

Codes(results) == [i \in 1..Len(results) |-> results[i].code]

(***************************************************************************)
(* Value Formatter                                                         *)
(***************************************************************************)
RECURSIVE formatValue(_)
formatValue(val) ==
    CASE val.t = "string" -> <<GoQuote(val.s)>>
      [] val.t = "int32" -> <<ToString(val.n)>>
      [] val.t = "int64" -> <<ToString(val.n)>>
      [] val.t = "float64" ->
            IF val.fr = 0 THEN <<ToString(val.ip)>>
            ELSE <<ToString(val.ip) \o "." \o ToString(val.fr)>>
      [] val.t = "bool" -> <<IF val.b THEN "true" ELSE "false">>
      [] val.t = "array" ->
            <<"bson.A", "{">>
            \o Join([i \in 1..Len(val.a) |-> formatValue(val.a[i])], <<",", " ">>)
            \o <<"}">>
      [] val.t = "doc" ->
            <<"bson.D", "{">>
            \o Join([i \in 1..Len(val.d) |->
                        <<"{", GoQuote(val.d[i].k), ",", " ">>
                        \o formatValue(val.d[i].v) \o <<"}">>],
                    <<",", " ">>)
            \o <<"}">>
      [] val.t = "objectid" ->
            <<"func() bson.ObjectID { id, _ := bson.ObjectIDFromHex(",
              GoQuote(val.hex), "); return id }()">>
      [] val.t = "regex" -> <<GoQuote(val.pattern)>>
      \* default: %#v
      [] val.t = "null" -> <<"<nil>">>
      [] val.t = "datetime" -> <<ToString(val.ms)>>

formatValues(val) ==
    IF ~IsArr(val) THEN formatValue(val)
    ELSE Join([i \in 1..Len(val.a) |-> formatValue(val.a[i])], <<",", " ">>)

(***************************************************************************)
(* Filter-Document Translator and Operator Dispatcher                      *)
(***************************************************************************)
\* a faulty FieldCall: the field name is written without %q
FieldCallUnquoted(name, field, args) ==
    <<name, "(", field, ",", " ">> \o args \o <<")">>

\* fmt.Sprintf("gmqb.X(%q, %s)", field, args)
FieldCall(name, field, args) ==
    <<name, "(", GoQuote(field), ",", " ">> \o args \o <<")">>

\* a faulty LinesCall: the empty parts are left out
LinesCallDropsEmpty(name, parts) ==
    IF SelectSeq(parts, LAMBDA part : part # <<>>) = <<>>
    THEN <<name, "(", ")">>
    ELSE <<name, "(", "\n">>
         \o Join(SelectSeq(parts, LAMBDA part : part # <<>>), <<",", "\n">>)
         \o <<",", "\n", ")">>

\* fmt.Sprintf("%s(\n%s,\n)", funcName, strings.Join(parts, ",\n"))
LinesCall(name, parts) ==
    <<name, "(", "\n">> \o Join(parts, <<",", "\n">>) \o <<",", "\n", ")">>

\* a loop that returns ("", err) at the first failed part
FirstError(results) == Ret(<<>>, results[FirstFailed(results)].err)

\* a faulty ImplicitAnd: the single part is wrapped as well
ImplicitAndAlwaysWraps(results) ==
    IF FirstFailed(results) # 0 THEN FirstError(results)
    ELSE Ok(LinesCall("gmqb.And", Codes(results)))

\* the end of translateDoc: one part is returned as it is, several are
\* wrapped in the implicit gmqb.And
ImplicitAnd(results) ==
    IF FirstFailed(results) # 0 THEN FirstError(results)
    ELSE IF Len(results) = 1 THEN Ok(results[1].code)
    ELSE Ok(LinesCall("gmqb.And", Codes(results)))

\* a faulty OperatorAnd: the operator fragments are joined as siblings of
\* the enclosing document's fragments, without a gmqb.And of their own
OperatorAndSiblings(results) ==
    IF FirstFailed(results) # 0 THEN FirstError(results)
    ELSE Ok(Join(Codes(results), <<",", "\n">>))

\* the end of translateElement's operator loop: one part is returned as it
\* is, several are wrapped in a gmqb.And
OperatorAnd(results) ==
    IF FirstFailed(results) # 0 THEN FirstError(results)
    ELSE IF Len(results) = 1 THEN Ok(results[1].code)
    ELSE Ok(LinesCall("gmqb.And", Codes(results)))

\* the end of translateLogicalOp
LogicalCall(funcName, results) ==
    IF FirstFailed(results) # 0 THEN FirstError(results)
    ELSE Ok(LinesCall(funcName, Codes(results)))

\* a faulty ElemMatchCall: the sub-document's error is dropped
ElemMatchCallIgnoresError(field, sub) ==
    Ok(FieldCall("gmqb.ElemMatch", field, sub.code))

\* the end of the $elemMatch case, sub being translateDoc's result
ElemMatchCall(field, sub) ==
    IF sub.err.set THEN Ret(<<>>, sub.err)
    ELSE Ok(FieldCall("gmqb.ElemMatch", field, sub.code))

\* a faulty ModCall: an array longer than two elements is accepted
ModCallUnchecked(field, val) ==
    IF ~IsArr(val) \/ Len(val.a) < 2
    THEN Fail("invalid $mod value")
    ELSE Ok(FieldCall("gmqb.Mod", field,
                      formatValue(val.a[1]) \o <<",", " ">>
                      \o formatValue(val.a[2])))

\* the $mod case
ModCall(field, val) ==
    IF ~IsArr(val) \/ Len(val.a) # 2
    THEN Fail("invalid $mod value")
    ELSE Ok(FieldCall("gmqb.Mod", field,
                      formatValue(val.a[1]) \o <<",", " ">>
                      \o formatValue(val.a[2])))

\* a faulty RegexCall: the options of a sibling $options key are assumed
RegexCallWithOptions(field, val) ==
    Ok(FieldCall("gmqb.Regex", field,
                 formatValue(val) \o <<",", " ", "\"i\"">>))

\* the $regex case: the pattern and an empty options argument
RegexCall(field, val) ==
    Ok(FieldCall("gmqb.Regex", field,
                 formatValue(val) \o <<",", " ", "\"\"">>))

\* a faulty UnsupportedOperator: the operator degrades to a raw fragment
UnsupportedOperatorDegrades(op) == Ok(<<"gmqb.Raw", "(", GoQuote(op), ")">>)

\* the default case of translateOperator's switch
UnsupportedOperator(op) == Fail("unsupported operator: " \o op)

\* does the sub-document have operator keys only?
HasOps(val) ==
    /\ IsDoc(val)
    /\ Len(val.d) > 0
    /\ \A i \in 1..Len(val.d) : HasDollarPrefix(val.d[i].k)

RECURSIVE translateDoc(_)
RECURSIVE translateElement(_, _)
RECURSIVE translateLogicalOp(_, _)
RECURSIVE translateOperator(_, _, _)

translateOperator(field, op, val) ==
    CASE op = "$eq" -> Ok(FieldCall("gmqb.Eq", field, formatValue(val)))
      [] op = "$ne" -> Ok(FieldCall("gmqb.Ne", field, formatValue(val)))
      [] op = "$gt" -> Ok(FieldCall("gmqb.Gt", field, formatValue(val)))
      [] op = "$gte" -> Ok(FieldCall("gmqb.Gte", field, formatValue(val)))
      [] op = "$lt" -> Ok(FieldCall("gmqb.Lt", field, formatValue(val)))
      [] op = "$lte" -> Ok(FieldCall("gmqb.Lte", field, formatValue(val)))
      [] op = "$in" -> Ok(FieldCall("gmqb.In", field, formatValues(val)))
      [] op = "$nin" -> Ok(FieldCall("gmqb.Nin", field, formatValues(val)))
      [] op = "$exists" -> Ok(FieldCall("gmqb.Exists", field, formatValue(val)))
      [] op = "$type" -> Ok(FieldCall("gmqb.Type", field, formatValue(val)))
      [] op = "$regex" -> RegexCall(field, val)
      [] op = "$mod" -> ModCall(field, val)
      [] op = "$size" -> Ok(FieldCall("gmqb.Size", field, formatValue(val)))
      [] op = "$all" -> Ok(FieldCall("gmqb.All", field, formatValues(val)))
      [] op = "$elemMatch" ->
            IF ~IsDoc(val) THEN Fail("invalid $elemMatch value")
            ELSE ElemMatchCall(field, translateDoc(val))
      [] OTHER -> UnsupportedOperator(op)

translateLogicalOp(funcName, val) ==
    IF ~IsArr(val)
    THEN Fail("expected array for logical operator, got " \o GoTypeName(val))
    ELSE LogicalCall(funcName,
                     [i \in 1..Len(val.a) |->
                         IF ~IsDoc(val.a[i])
                         THEN Fail("expected document in logical operator array, got "
                                   \o GoTypeName(val.a[i]))
                         ELSE translateDoc(val.a[i])])

translateElement(key, val) ==
    CASE key = "$and" -> translateLogicalOp("gmqb.And", val)
      [] key = "$or" -> translateLogicalOp("gmqb.Or", val)
      [] key = "$nor" -> translateLogicalOp("gmqb.Nor", val)
      [] OTHER ->
            IF HasOps(val)
            THEN OperatorAnd([i \in 1..Len(val.d) |->
                                 translateOperator(key, val.d[i].k, val.d[i].v)])
            \* default to gmqb.Eq("key", val)
            ELSE Ok(FieldCall("gmqb.Eq", key, formatValue(val)))

translateDoc(doc) ==
    IF Len(doc.d) = 0 THEN Ok(<<>>)
    ELSE ImplicitAnd([i \in 1..Len(doc.d) |->
                         translateElement(doc.d[i].k, doc.d[i].v)])

(***************************************************************************)
(* Expression Translator                                                   *)
(***************************************************************************)
\* the case lists of translateExpression's switch
UnaryExprOps ==
    {"$abs", "$ceil", "$floor", "$sqrt", "$ln", "$type", "$isArray",
     "$toLower", "$toUpper", "$strLenCP", "$year", "$month",
     "$dayOfMonth", "$hour", "$minute", "$second", "$millisecond",
     "$dayOfYear", "$dayOfWeek", "$isoWeek", "$isoWeekYear", "$toDate",
     "$toDecimal", "$toDouble", "$toInt", "$toLong", "$toObjectId",
     "$toString", "$toBool", "$not", "$reverseArray", "$objectToArray",
     "$arrayToObject"}

AccumulatorOps ==
    {"$sum", "$avg", "$min", "$max", "$first", "$last", "$push",
     "$addToSet", "$stdDevPop", "$stdDevSamp", "$count"}

BinaryExprOps ==
    {"$subtract", "$divide", "$mod", "$pow", "$log", "$cmp", "$eq",
     "$ne", "$gt", "$gte", "$lt", "$lte", "$split", "$arrayElemAt",
     "$setDifference", "$setIsSubset", "$in", "$indexOfArray"}

VariadicExprOps ==
    {"$add", "$multiply", "$concat", "$concatArrays", "$setEquals",
     "$setIntersection", "$setUnion", "$anyElementTrue",
     "$allElementsTrue", "$mergeObjects", "$zip", "$or", "$and"}

\* strings.ToUpper(op[1:2]) + op[2:]
UpperFirst(op) ==
    CASE op = "$abs" -> "Abs"
      [] op = "$ceil" -> "Ceil"
      [] op = "$floor" -> "Floor"
      [] op = "$sqrt" -> "Sqrt"
      [] op = "$ln" -> "Ln"
      [] op = "$type" -> "Type"
      [] op = "$isArray" -> "IsArray"
      [] op = "$toLower" -> "ToLower"
      [] op = "$toUpper" -> "ToUpper"
      [] op = "$strLenCP" -> "StrLenCP"
      [] op = "$year" -> "Year"
      [] op = "$month" -> "Month"
      [] op = "$dayOfMonth" -> "DayOfMonth"
      [] op = "$hour" -> "Hour"
      [] op = "$minute" -> "Minute"
      [] op = "$second" -> "Second"
      [] op = "$millisecond" -> "Millisecond"
      [] op = "$dayOfYear" -> "DayOfYear"
      [] op = "$dayOfWeek" -> "DayOfWeek"
      [] op = "$isoWeek" -> "IsoWeek"
      [] op = "$isoWeekYear" -> "IsoWeekYear"
      [] op = "$toDate" -> "ToDate"
      [] op = "$toDecimal" -> "ToDecimal"
      [] op = "$toDouble" -> "ToDouble"
      [] op = "$toInt" -> "ToInt"
      [] op = "$toLong" -> "ToLong"
      [] op = "$toObjectId" -> "ToObjectId"
      [] op = "$toString" -> "ToString"
      [] op = "$toBool" -> "ToBool"
      [] op = "$not" -> "Not"
      [] op = "$reverseArray" -> "ReverseArray"
      [] op = "$objectToArray" -> "ObjectToArray"
      [] op = "$arrayToObject" -> "ArrayToObject"
      [] op = "$sum" -> "Sum"
      [] op = "$avg" -> "Avg"
      [] op = "$min" -> "Min"
      [] op = "$max" -> "Max"
      [] op = "$first" -> "First"
      [] op = "$last" -> "Last"
      [] op = "$push" -> "Push"
      [] op = "$addToSet" -> "AddToSet"
      [] op = "$stdDevPop" -> "StdDevPop"
      [] op = "$stdDevSamp" -> "StdDevSamp"
      [] op = "$count" -> "Count"
      [] op = "$subtract" -> "Subtract"
      [] op = "$divide" -> "Divide"
      [] op = "$mod" -> "Mod"
      [] op = "$pow" -> "Pow"
      [] op = "$log" -> "Log"
      [] op = "$cmp" -> "Cmp"
      [] op = "$eq" -> "Eq"
      [] op = "$ne" -> "Ne"
      [] op = "$gt" -> "Gt"
      [] op = "$gte" -> "Gte"
      [] op = "$lt" -> "Lt"
      [] op = "$lte" -> "Lte"
      [] op = "$split" -> "Split"
      [] op = "$arrayElemAt" -> "ArrayElemAt"
      [] op = "$setDifference" -> "SetDifference"
      [] op = "$setIsSubset" -> "SetIsSubset"
      [] op = "$in" -> "In"
      [] op = "$indexOfArray" -> "IndexOfArray"
      [] op = "$add" -> "Add"
      [] op = "$multiply" -> "Multiply"
      [] op = "$concat" -> "Concat"
      [] op = "$concatArrays" -> "ConcatArrays"
      [] op = "$setEquals" -> "SetEquals"
      [] op = "$setIntersection" -> "SetIntersection"
      [] op = "$setUnion" -> "SetUnion"
      [] op = "$anyElementTrue" -> "AnyElementTrue"
      [] op = "$allElementsTrue" -> "AllElementsTrue"
      [] op = "$mergeObjects" -> "MergeObjects"
      [] op = "$zip" -> "Zip"
      [] op = "$or" -> "Or"
      [] op = "$and" -> "And"

\* strings.ReplaceAll(funcName, "Id", "ID") on the names of the "$to" operators
ReplaceIdWithID(name) ==
    IF name = "ExprToObjectId" THEN "ExprToObjectID" ELSE name

ToOps ==
    {"$toLower", "$toUpper", "$toDate", "$toDecimal", "$toDouble", "$toInt",
     "$toLong", "$toObjectId", "$toString", "$toBool"}

\* the nil interface value getMapValue returns for an absent key
getMapValue(d, key) ==
    IF \E i \in 1..Len(d.d) : d.d[i].k = key
    THEN d.d[CHOOSE i \in 1..Len(d.d) :
                /\ d.d[i].k = key
                /\ \A j \in 1..(i - 1) : d.d[j].k # key].v
    ELSE Null

getMapString(d, key) ==
    IF \E i \in 1..Len(d.d) : d.d[i].k = key /\ IsStr(d.d[i].v)
    THEN d.d[CHOOSE i \in 1..Len(d.d) :
                /\ d.d[i].k = key /\ IsStr(d.d[i].v)
                /\ \A j \in 1..(i - 1) : ~(d.d[j].k = key /\ IsStr(d.d[j].v))].v.s
    ELSE ""

\* fmt.Sprintf("gmqb.%s(%s)", funcName, args)
GmqbCall(funcName, args) == <<"gmqb." \o funcName, "(">> \o args \o <<")">>

\* fmt.Sprintf("bson.D{{%q, %s}}", op, text)
RawPair(op, text) ==
    <<"bson.D", "{", "{", GoQuote(op), ",", " ">> \o text \o <<"}", "}">>

Sep == <<",", " ">>

\* how one argument of an emitted call is rendered: through
\* formatExpressionValue ("expr"), through formatValue ("lit") or as a
\* %q-quoted string ("quote")
ExprArg(val) == [how |-> "expr", v |-> val]
LitArg(val) == [how |-> "lit", v |-> val]
QuoteArg(str) == [how |-> "quote", v |-> Str(str)]

\* a faulty BinaryArg: the argument is written by formatExpressionValue
BinaryArgExpression(val) == ExprArg(val)

\* an argument of a binary operator: written by formatValue
BinaryArg(val) == LitArg(val)

\* a faulty Call: the arguments are emitted in reverse order
CallReversed(funcName, argList) ==
    [raw |-> FALSE, fn |-> funcName,
     args |-> [i \in 1..Len(argList) |-> argList[Len(argList) + 1 - i]]]

Call(funcName, argList) == [raw |-> FALSE, fn |-> funcName, args |-> argList]
\* the fallback: bson.D{{op, value}}
Fallback(arg) == [raw |-> TRUE, fn |-> "", args |-> <<arg>>]

\* the switch of translateExpression: the builder function and the argument
\* list each case emits
ExprCase(op, val) ==
    LET sub(key) == ExprArg(getMapValue(val, key))
        str(key) == QuoteArg(getMapString(val, key))
    IN
    CASE op \in UnaryExprOps ->
            LET funcName ==
                    IF op = "$strLenCP" THEN "ExprStrLenCP"
                    ELSE IF op = "$isArray" THEN "ExprIsArray"
                    ELSE IF op = "$objectToArray" THEN "ExprObjectToArray"
                    ELSE IF op = "$arrayToObject" THEN "ExprArrayToObject"
                    ELSE IF op \in ToOps
                         THEN ReplaceIdWithID("Expr" \o UpperFirst(op))
                    ELSE "Expr" \o UpperFirst(op)
            IN  Call(funcName, <<ExprArg(val)>>)
      [] op \in AccumulatorOps ->
            IF op = "$count" THEN Call("AccCount", <<>>)
            ELSE Call("Acc" \o UpperFirst(op), <<ExprArg(val)>>)
      [] op \in BinaryExprOps ->
            IF ~IsArr(val) \/ Len(val.a) # 2 THEN Fallback(LitArg(val))
            ELSE Call("Expr" \o UpperFirst(op), <<BinaryArg(val.a[1]), BinaryArg(val.a[2])>>)
      [] op \in VariadicExprOps ->
            IF ~IsArr(val) THEN Fallback(LitArg(val))
            ELSE Call("Expr" \o UpperFirst(op),
                      [i \in 1..Len(val.a) |-> ExprArg(val.a[i])])
      [] op = "$filter" /\ IsDoc(val) ->
            Call("ExprFilter", <<sub("input"), str("as"), sub("cond")>>)
      [] op = "$map" /\ IsDoc(val) ->
            Call("ExprMap", <<sub("input"), str("as"), sub("in")>>)
      [] op = "$reduce" /\ IsDoc(val) ->
            Call("ExprReduce", <<sub("input"), sub("initialValue"), sub("in")>>)
      [] op = "$let" /\ IsDoc(val) ->
            Call("ExprLet", <<sub("vars"), sub("in")>>)
      [] op \in {"$regexMatch", "$regexFind", "$regexFindAll"} /\ IsDoc(val) ->
            LET funcName == IF op = "$regexFind" THEN "ExprRegexFind"
                            ELSE IF op = "$regexFindAll" THEN "ExprRegexFindAll"
                            ELSE "ExprRegexMatch"
            IN  Call(funcName, <<sub("input"), str("regex"), str("options")>>)
      [] op \in {"$replaceOne", "$replaceAll"} /\ IsDoc(val) ->
            LET funcName == IF op = "$replaceAll" THEN "ExprReplaceAll"
                            ELSE "ExprReplaceOne"
            IN  Call(funcName, <<sub("input"), sub("find"), sub("replacement")>>)
      [] op \in {"$trim", "$ltrim", "$rtrim"} /\ IsDoc(val) ->
            LET funcName == IF op = "$ltrim" THEN "ExprLTrim"
                            ELSE IF op = "$rtrim" THEN "ExprRTrim"
                            ELSE "ExprTrim"
            IN  Call(funcName, <<sub("input"), sub("chars")>>)
      [] op = "$cond" /\ IsDoc(val) ->
            Call("ExprCond", <<sub("if"), sub("then"), sub("else")>>)
      [] op = "$cond" /\ IsArr(val) /\ Len(val.a) = 3 ->
            Call("ExprCond", <<ExprArg(val.a[1]), ExprArg(val.a[2]), ExprArg(val.a[3])>>)
      [] op = "$switch" /\ IsDoc(val) ->
            Call("ExprSwitch", <<sub("branches"), sub("default")>>)
      \* native fallback
      [] OTHER -> Fallback(ExprArg(val))

\* a faulty EmitCase: an operator outside the closed set is an error
EmitCaseRejectsUnknown(op, case, texts) ==
    IF case.raw THEN Fail("unsupported expression operator: " \o op)
    ELSE Ok(GmqbCall(case.fn, Join(texts, Sep)))

\* fmt.Sprintf of the case's format string with its rendered arguments
EmitCase(op, case, texts) ==
    IF case.raw THEN Ok(RawPair(op, texts[1]))
    ELSE Ok(GmqbCall(case.fn, Join(texts, Sep)))

RECURSIVE translateExpression(_)
RECURSIVE formatExpressionValue(_)
RECURSIVE RenderArgs(_)

\* falls back to formatValue when translateExpression fails
ExprOrValue(r, val) == IF ~r.err.set THEN r.code ELSE formatValue(val)

\* a faulty formatExpressionValue: no expression is translated
formatExpressionValueLiteral(val) == formatValue(val)

formatExpressionValue(val) ==
    IF IsDoc(val) /\ Len(val.d) = 1 /\ HasDollarPrefix(val.d[1].k)
    THEN ExprOrValue(translateExpression(val), val)
    ELSE formatValue(val)

\* a faulty RenderArgs: no argument is translated as an expression
RenderArgsLiteral(args) ==
    [i \in 1..Len(args) |->
        IF args[i].how = "quote" THEN <<GoQuote(args[i].v.s)>>
        ELSE formatValue(args[i].v)]

RenderArgs(args) ==
    [i \in 1..Len(args) |->
        CASE args[i].how = "expr" -> formatExpressionValue(args[i].v)
          [] args[i].how = "lit" -> formatValue(args[i].v)
          [] args[i].how = "quote" -> <<GoQuote(args[i].v.s)>>]

EmitExpression(op, case) == EmitCase(op, case, RenderArgs(case.args))

translateExpression(doc) ==
    IF Len(doc.d) # 1
    THEN Fail("expression document must have exactly one field, got "
              \o ToString(Len(doc.d)))
    ELSE EmitExpression(doc.d[1].k, ExprCase(doc.d[1].k, doc.d[1].v))

(***************************************************************************)
(* Pipeline-Stage Translator                                               *)
(***************************************************************************)
\* a faulty getInt64: a float64 is rounded to the nearest integer
getInt64Rounds(val) ==
    CASE val.t = "int32" -> val.n
      [] val.t = "int64" -> val.n
      [] val.t = "float64" ->
            IF val.fr < 5 THEN val.ip
            ELSE IF val.ip < 0 THEN val.ip - 1 ELSE val.ip + 1
      [] OTHER -> 0

getInt64(val) ==
    CASE val.t = "int32" -> val.n
      [] val.t = "int64" -> val.n
      [] val.t = "float64" -> val.ip
      [] OTHER -> 0

\* a faulty CountCall: a value that is no number is an error
CountCallChecked(method, stageVal) ==
    IF stageVal.t \notin {"int32", "int64", "float64"}
    THEN Fail("expected number, got " \o GoTypeName(stageVal))
    ELSE Ok(<<method, "(", ToString(getInt64(stageVal)), ")">>)

\* fmt.Sprintf("Limit(%d)", getInt64(stageVal)), and the same for Skip
CountCall(method, stageVal) ==
    Ok(<<method, "(", ToString(getInt64(stageVal)), ")">>)

\* fmt's %q applied to a stage value: a quoted string, a rune literal for an
\* integer, and the bad-verb text for every other kind
QuoteVerb(val) ==
    CASE val.t = "string" -> GoQuote(val.s)
      [] val.t \in {"int32", "int64"} -> "'\\x0" \o ToString(val.n) \o "'"
      [] OTHER -> "%!q(" \o GoTypeName(val) \o ")"

\* a faulty FieldParts: the values are written by formatValue
FieldPartsLiteral(d, open, close) ==
    [i \in 1..Len(d.d) |->
        open \o <<GoQuote(d.d[i].k), ",", " ">> \o formatValue(d.d[i].v) \o close]

\* one fmt.Sprintf(pair, e.Key, formatExpressionValue(e.Value)) per field
FieldParts(d, open, close) ==
    [i \in 1..Len(d.d) |->
        open \o <<GoQuote(d.d[i].k), ",", " ">>
        \o formatExpressionValue(d.d[i].v) \o close]

ExpectedDocument(stageOp, stageVal) ==
    Fail("expected document for " \o stageOp \o ", got " \o GoTypeName(stageVal))

\* the elements of d whose key is not "_id", in order
RECURSIVE WithoutId(_)
WithoutId(elems) ==
    IF Len(elems) = 0 THEN <<>>
    ELSE IF Head(elems).k = "_id" THEN WithoutId(Tail(elems))
    ELSE <<Head(elems)>> \o WithoutId(Tail(elems))

\* the end of the $match case, part being translateDoc's result
MatchCall(part) ==
    IF part.err.set THEN Ret(<<>>, part.err)
    ELSE Ok(<<"Match", "(">> \o part.code \o <<")">>)

\* fmt.Sprintf("%s(%s\n\t%s,\n%s", ...) around the joined field parts
SpecCall(open, parts, close) ==
    open \o <<"\n", "\t">> \o Join(parts, <<",", "\n", "\t">>) \o <<",", "\n">> \o close

\* a faulty GroupCall: the id is written after the accumulators
GroupCallIdLast(idVal, parts) ==
    IF Len(parts) = 0
    THEN Ok(<<"Group", "(", "gmqb.GroupSpec", "(">> \o idVal \o <<")", ")">>)
    ELSE Ok(SpecCall(<<"Group", "(", "gmqb.GroupSpec", "(">>,
                     parts \o <<idVal>>, <<")", ")">>))

GroupCall(idVal, parts) ==
    IF Len(parts) = 0
    THEN Ok(<<"Group", "(", "gmqb.GroupSpec", "(">> \o idVal \o <<")", ")">>)
    ELSE Ok(SpecCall(<<"Group", "(", "gmqb.GroupSpec", "(">> \o idVal \o <<",">>,
                     parts, <<")", ")">>))

StageCase(stageOp, stageVal) ==
    CASE stageOp = "$match" ->
            IF ~IsDoc(stageVal)
            THEN Fail("expected document $match, got " \o GoTypeName(stageVal))
            ELSE MatchCall(translateDoc(stageVal))
      [] stageOp \in {"$addFields", "$set"} ->
            IF ~IsDoc(stageVal) THEN ExpectedDocument(stageOp, stageVal)
            ELSE Ok(SpecCall(<<IF stageOp = "$set" THEN "SetFields" ELSE "AddFields",
                               "(", "gmqb.AddFieldsSpec", "(">>,
                             FieldParts(stageVal, <<"gmqb.AddField", "(">>, <<")">>),
                             <<")", ")">>))
      [] stageOp \in {"$project", "$sort"} ->
            IF ~IsDoc(stageVal) THEN ExpectedDocument(stageOp, stageVal)
            ELSE Ok(SpecCall(<<IF stageOp = "$sort" THEN "Sort" ELSE "Project",
                               "(", "bson.D", "{">>,
                             FieldParts(stageVal, <<"bson.E", "{">>, <<"}">>),
                             <<"}", ")">>))
      [] stageOp = "$group" ->
            IF ~IsDoc(stageVal) THEN ExpectedDocument(stageOp, stageVal)
            ELSE GroupCall(formatExpressionValue(getMapValue(stageVal, "_id")),
                           FieldParts(Doc(WithoutId(stageVal.d)),
                                      <<"gmqb.GroupAcc", "(">>, <<")">>))
      [] stageOp = "$limit" -> CountCall("Limit", stageVal)
      [] stageOp = "$skip" -> CountCall("Skip", stageVal)
      [] stageOp = "$count" -> Ok(<<"Count", "(", QuoteVerb(stageVal), ")">>)
      [] stageOp = "$unwind" /\ IsStr(stageVal) ->
            Ok(<<"Unwind", "(", GoQuote(stageVal.s), ")">>)
      [] stageOp = "$unwind" /\ IsDoc(stageVal) ->
            Ok(<<"RawStage", "(", "\"$unwind\"", ",", " ">>
               \o formatValue(stageVal) \o <<")">>)
      [] stageOp = "$replaceRoot" ->
            Ok(<<"ReplaceRoot", "(">> \o formatValue(stageVal) \o <<")">>)
      [] stageOp = "$replaceWith" ->
            Ok(<<"ReplaceWith", "(">> \o formatValue(stageVal) \o <<")">>)
      [] stageOp = "$out" /\ IsStr(stageVal) ->
            Ok(<<"Out", "(", GoQuote(stageVal.s), ")">>)
      [] stageOp = "$out" /\ IsDoc(stageVal) ->
            Ok(<<"OutToDb", "(", GoQuote(getMapString(stageVal, "db")), ",", " ",
                 GoQuote(getMapString(stageVal, "coll")), ")">>)
      [] stageOp = "$out" ->
            Ok(<<"RawStage", "(", "\"$out\"", ",", " ">>
               \o formatValue(stageVal) \o <<")">>)
      \* fallback to RawStage
      [] OTHER ->
            Ok(<<"RawStage", "(", GoQuote(stageOp), ",", " ">>
               \o formatValue(stageVal) \o <<")">>)

\* a faulty translatePipelineStage: the keys after the first are ignored
translatePipelineStageFirstKey(doc) ==
    IF Len(doc.d) = 0 THEN Fail("empty pipeline stage")
    ELSE StageCase(doc.d[1].k, doc.d[1].v)

translatePipelineStage(doc) ==
    IF Len(doc.d) = 0 THEN Fail("empty pipeline stage")
    ELSE IF Len(doc.d) > 1
    THEN Fail("pipeline stage must have exactly one top-level operator, got "
              \o ToString(Len(doc.d)))
    ELSE StageCase(doc.d[1].k, doc.d[1].v)

\* a faulty ChainStages: the stages are chained on one line
ChainStagesOneLine(results) ==
    IF FirstFailed(results) # 0 THEN FirstError(results)
    ELSE Ok(<<"gmqb.NewPipeline", "(", ")", ".">>
            \o Join(Codes(results), <<".">>))

\* the end of translatePipeline: the stages chained on the constructor
ChainStages(results) ==
    IF FirstFailed(results) # 0 THEN FirstError(results)
    ELSE Ok(<<"gmqb.NewPipeline", "(", ")", ".", "\n">>
            \o Join(Codes(results), <<".", "\n">>))

translatePipeline(arr) ==
    IF Len(arr.a) = 0 THEN Ok(<<"gmqb.NewPipeline", "(", ")">>)
    ELSE ChainStages([i \in 1..Len(arr.a) |->
                         IF ~IsDoc(arr.a[i])
                         THEN Fail("expected document as pipeline stage, got "
                                   \o GoTypeName(arr.a[i]))
                         ELSE translatePipelineStage(arr.a[i])])

(***************************************************************************)
(* Source Formatter: go/format.Source as the generator uses it.  The text  *)
(* is accepted when it is empty or scans and parses as one Go expression;  *)
(* the scanner inserts a semicolon at a newline that follows an operand    *)
(* or a closing bracket, which no expression survives.                     *)
(***************************************************************************)
Blank == {" ", "\t"}
Punct == {"(", ")", "{", "}", ",", ".", ";"}
OidOpen == "func() bson.ObjectID { id, _ := bson.ObjectIDFromHex("
OidClose == "); return id }()"

\* tokens that are no Go token at all: %#v of nil and fmt's bad-verb text
NotGoTokens ==
    {"<nil>"} \cup
    {"%!q(" \o ty \o ")" : ty \in {"<nil>", "bool", "float64", "bson.A", "bson.D",
                                   "bson.ObjectID", "bson.Regex", "bson.DateTime"}}

IsOperandToken(tok) ==
    tok \notin Punct \cup Blank \cup NotGoTokens \cup {"\n", OidOpen, OidClose}

\* the last token before position i that is neither a blank nor a newline
PrevToken(text, i) ==
    LET before == {j \in 1..(i - 1) : text[j] \notin Blank \cup {"\n"}}
    IN  IF before = {} THEN ""
        ELSE text[CHOOSE j \in before : \A k \in before : k <= j]

NotBlank(tok) == tok \notin Blank

\* the scanner: blanks dropped, a newline dropped or turned into ";"
Scan(text) ==
    LET marked == [i \in 1..Len(text) |->
                      IF text[i] # "\n" THEN text[i]
                      ELSE LET prev == PrevToken(text, i)
                           IN  IF prev \in {")", "}", OidClose}
                                  \/ (prev # "" /\ IsOperandToken(prev))
                               THEN ";" ELSE " "]
    IN  SelectSeq(marked, NotBlank)

BadParse == [ok |-> FALSE, node |-> [n |-> "bad"], next |-> 0]
BadList == [ok |-> FALSE, nodes |-> <<>>, next |-> 0]
At(ts, i) == IF i <= Len(ts) THEN ts[i] ELSE ""

RECURSIVE ParseExpr(_, _)
RECURSIVE ParsePrimary(_, _)
RECURSIVE ParseSuffix(_, _, _)
RECURSIVE ParseList(_, _, _)
RECURSIVE ParseElement(_, _)

\* an expression list up to the closing bracket; a trailing comma is allowed
ParseList(ts, i, close) ==
    IF At(ts, i) = close THEN [ok |-> TRUE, nodes |-> <<>>, next |-> i + 1]
    ELSE LET e == IF close = "}" THEN ParseElement(ts, i) ELSE ParseExpr(ts, i)
         IN  IF ~e.ok THEN BadList
             ELSE IF At(ts, e.next) = ","
             THEN LET rest == ParseList(ts, e.next + 1, close)
                  IN  IF ~rest.ok THEN BadList
                      ELSE [ok |-> TRUE, nodes |-> <<e.node>> \o rest.nodes,
                            next |-> rest.next]
             ELSE IF At(ts, e.next) = close
             THEN [ok |-> TRUE, nodes |-> <<e.node>>, next |-> e.next + 1]
             ELSE BadList

\* an element of a composite literal: an expression or a literal value
\* with its type elided
ParseElement(ts, i) ==
    IF At(ts, i) = "{"
    THEN LET l == ParseList(ts, i + 1, "}")
         IN  IF ~l.ok THEN BadParse
             ELSE [ok |-> TRUE, node |-> [n |-> "comp", ty |-> "", elems |-> l.nodes],
                   next |-> l.next]
    ELSE ParseExpr(ts, i)

ParsePrimary(ts, i) ==
    LET tok == At(ts, i)
    IN  IF tok = OidOpen
        THEN IF IsOperandToken(At(ts, i + 1)) /\ At(ts, i + 2) = OidClose
             THEN [ok |-> TRUE, node |-> [n |-> "oid", hex |-> ts[i + 1]],
                   next |-> i + 3]
             ELSE BadParse
        ELSE IF tok = "" \/ ~IsOperandToken(tok) THEN BadParse
        ELSE IF At(ts, i + 1) = "{"
        THEN LET l == ParseList(ts, i + 2, "}")
             IN  IF ~l.ok THEN BadParse
                 ELSE [ok |-> TRUE,
                       node |-> [n |-> "comp", ty |-> tok, elems |-> l.nodes],
                       next |-> l.next]
        ELSE IF At(ts, i + 1) = "("
        THEN LET l == ParseList(ts, i + 2, ")")
             IN  IF ~l.ok THEN BadParse
                 ELSE [ok |-> TRUE,
                       node |-> [n |-> "call", fn |-> tok, args |-> l.nodes],
                       next |-> l.next]
        ELSE [ok |-> TRUE, node |-> [n |-> "tok", tok |-> tok], next |-> i + 1]

\* selector calls chained on an expression: recv.Method(args)
ParseSuffix(ts, recv, i) ==
    IF At(ts, i) # "." THEN [ok |-> TRUE, node |-> recv, next |-> i]
    ELSE IF IsOperandToken(At(ts, i + 1)) /\ At(ts, i + 1) # "" /\ At(ts, i + 2) = "("
    THEN LET l == ParseList(ts, i + 3, ")")
         IN  IF ~l.ok THEN BadParse
             ELSE ParseSuffix(ts,
                              [n |-> "mcall", recv |-> recv, m |-> ts[i + 1],
                               margs |-> l.nodes],
                              l.next)
    ELSE BadParse

ParseExpr(ts, i) ==
    LET p == ParsePrimary(ts, i)
    IN  IF ~p.ok THEN BadParse ELSE ParseSuffix(ts, p.node, p.next)

\* the text parsed as one whole expression
ParseSource(text) ==
    LET ts == Scan(text)
        e == ParseExpr(ts, 1)
    IN  IF e.ok /\ e.next = Len(ts) + 1 THEN e ELSE BadParse

\* the first token after position i that is no blank, "" at the end
NextToken(text, i) ==
    LET after == {j \in (i + 1)..Len(text) : text[j] \notin Blank}
    IN  IF after = {} THEN ""
        ELSE text[CHOOSE j \in after : \A k \in after : j <= k]

\* gofmt's layout of an accepted text, up to blanks: the tokens and line
\* breaks are kept, a comma directly before a closing bracket is dropped
Layout(text) ==
    LET marked == [i \in 1..Len(text) |->
                      IF text[i] = "," /\ NextToken(text, i) \in {")", "}"}
                      THEN " " ELSE text[i]]
    IN  SelectSeq(marked, NotBlank)

FormatSource(text) ==
    IF Len(text) = 0 THEN Ok(<<>>)
    ELSE IF ParseSource(text).ok THEN Ok(Layout(text))
    ELSE Ret(<<>>, Errorf("syntax error"))

(***************************************************************************)
(* Entry Translator                                                        *)
(***************************************************************************)
\* the outcome of GenerateFilter / GeneratePipeline after a successful
\* bson.UnmarshalExtJSON: [raw, code, err]
\* a faulty Finish: a formatting failure returns the error without the text
FinishDropsText(r) ==
    IF r.err.set THEN [raw |-> <<>>, code |-> <<>>, err |-> r.err]
    ELSE IF FormatSource(r.code).err.set
    THEN [raw |-> r.code, code |-> <<>>,
          err |-> Errorf("failed to format generated code: syntax error")]
    ELSE [raw |-> r.code, code |-> FormatSource(r.code).code, err |-> NilErr]

Finish(r) ==
    IF r.err.set THEN [raw |-> <<>>, code |-> <<>>, err |-> r.err]
    ELSE LET f == FormatSource(r.code)
         IN  IF f.err.set
             THEN [raw |-> r.code, code |-> r.code,
                   err |-> Errorf("failed to format generated code: " \o f.err.msg)]
             ELSE [raw |-> r.code, code |-> f.code, err |-> NilErr]

GenerateFilterResult(in) ==
    IF ~IsDoc(in.val)
    THEN [raw |-> <<>>, code |-> <<>>, err |-> Errorf("failed to parse JSON")]
    ELSE Finish(translateDoc(in.val))

GeneratePipelineResult(in) ==
    IF ~IsArr(in.val)
    THEN [raw |-> <<>>, code |-> <<>>, err |-> Errorf("failed to parse JSON array")]
    ELSE Finish(translatePipeline(in.val))

(***************************************************************************)
(* Inputs: the decoded form of the text handed to Generate.  text says     *)
(* whether the trimmed text begins with "[".                               *)
(***************************************************************************)
MaxLen == 2
MaxKeys == 2
MaxDepth == 2
MaxStages == 2

SeqsUpTo(S, n) == UNION {[1..k -> S] : k \in 0..n}

Invalid == [t |-> "invalid"]
FilterInput(d) == [text |-> "object", val |-> d]
PipelineInput(a) == [text |-> "array", val |-> a]

Fields == {"a", "b"}
FieldOperators ==
    {"$eq", "$ne", "$gt", "$gte", "$lt", "$lte", "$in", "$nin", "$exists",
     "$type", "$regex", "$mod", "$size", "$all", "$elemMatch"}
UnsupportedOperators == {"$foo", "$options"}
LogicalKeys == {"$and", "$or", "$nor"}

ScalarValues ==
    {Str("A"), Str("x\"y"), Int32(4), Int64(7), Float64(2, 5), Float64(3, 0),
     Bool(TRUE), Null, BsonRegex("p", "i"), ObjectID("0123456789abcdef01234567"),
     DateTime(5)}
ArrayElements == {Int32(4), Str("A")}
ScalarArrays == {Arr(x) : x \in SeqsUpTo(ArrayElements, MaxLen + 1)}

\* documents used as sub-documents of $and/$or/$nor, $elemMatch and $match
SubDocs ==
    {Doc(<<>>),
     Doc(<<E("a", Str("A"))>>),
     Doc(<<E("a", Doc(<<E("$gte", Int32(4))>>))>>),
     Doc(<<E("a", Str("A")), E("b", Int32(4))>>),
     Doc(<<E("a", Doc(<<E("$gte", Int32(4)), E("$lt", Int64(7))>>))>>),
     Doc(<<E("a", Doc(<<E("$foo", Int32(4))>>))>>),
     Doc(<<E("b", Doc(<<E("$mod", Arr(<<Int32(4)>>))>>))>>),
     Doc(<<E("$gte", Int32(4))>>)}

OperandValues ==
    ScalarValues \cup ScalarArrays \cup SubDocs
    \cup {Arr(<<Null>>), Arr(<<Doc(<<E("$foo", Int32(4))>>)>>)}

\* {f: {op: v}} for every operator and operand
SingleOperatorDocs ==
    {Doc(<<E(f, Doc(<<E(op, v)>>))>>) :
        f \in {"a"}, op \in FieldOperators \cup UnsupportedOperators,
        v \in OperandValues}

\* operator documents with several operators
OperatorPairs ==
    {E("$gte", Int32(4)), E("$lt", Int64(7)), E("$in", Arr(<<Int32(4), Str("A")>>)),
     E("$regex", Str("p")), E("$options", Str("i")), E("$mod", Arr(<<Int32(4)>>)),
     E("$foo", Int32(4))}
MultiOperatorValues ==
    {Doc(x) : x \in SeqsUpTo(OperatorPairs, MaxKeys) \ SeqsUpTo(OperatorPairs, 1)}

\* the values of a bare field: literals and documents that are no operator
\* document
BareValues ==
    ScalarValues \cup
    {Arr(<<>>), Arr(<<Int32(4), Str("A")>>), Doc(<<>>),
     Doc(<<E("b", Int32(4))>>),
     Doc(<<E("$gt", Int32(4)), E("b", Int32(4))>>)}

SmallElements ==
    {E("a", Str("A")), E("b", Int32(4)), E("x\"y", Null),
     E("a", Doc(<<E("$gte", Int32(4))>>)),
     E("b", Doc(<<E("$gte", Int32(4)), E("$lt", Int64(7))>>)),
     E("a", Doc(<<E("$foo", Int32(4))>>)),
     E("b", Doc(<<E("$mod", Arr(<<Int32(4)>>))>>)),
     E("$or", Arr(<<Doc(<<E("a", Str("A"))>>), Doc(<<E("b", Int32(4))>>)>>))}

LeafDocs ==
    SingleOperatorDocs
    \cup {Doc(<<E(f, v)>>) : f \in Fields, v \in BareValues \cup MultiOperatorValues}
    \cup {Doc(x) : x \in SeqsUpTo(SmallElements, MaxKeys)}

\* $and/$or/$nor over arrays of sub-documents, arrays with an element that
\* is no document, and values that are no array
LogicalValues ==
    {Arr(x) : x \in SeqsUpTo(SubDocs \cup {Int32(4)}, MaxLen)}
    \cup {Str("A"), Doc(<<E("a", Str("A"))>>), Null}
LogicalDocs == {Doc(<<E(k, v)>>) : k \in LogicalKeys, v \in LogicalValues}

\* the enclosing constructs a document can be nested in
Wrappers(d) ==
    {Doc(<<E("a", Doc(<<E("$elemMatch", d)>>))>>),
     Doc(<<E("$and", Arr(<<d>>))>>),
     Doc(<<E("$nor", Arr(<<Doc(<<E("a", Str("A"))>>), d>>))>>),
     Doc(<<E("b", Int32(4)), E("$or", Arr(<<d, Doc(<<E("b", Int32(4))>>)>>))>>)}

RECURSIVE Nested(_)
Nested(depth) ==
    IF depth = 0 THEN SubDocs
    ELSE LET inner == Nested(depth - 1)
         IN  inner \cup UNION {Wrappers(d) : d \in inner}

FilterDocs == LeafDocs \cup LogicalDocs \cup Nested(MaxDepth)

\* pipeline stages, and array elements that are no stage
StageValues ==
    {Doc(<<E("$match", Doc(<<E("a", Str("A"))>>))>>),
     Doc(<<E("$match", Doc(<<E("a", Doc(<<E("$foo", Int32(4))>>))>>))>>),
     Doc(<<E("$match", Str("A"))>>),
     Doc(<<E("$limit", Int32(4))>>),
     Doc(<<E("$skip", Float64(2, 5))>>),
     Doc(<<E("$addFields", Doc(<<E("total", Doc(<<E("$add", Arr(<<Str("$a"), Str("$b")>>))>>))>>))>>),
     Doc(<<E("$project", Doc(<<E("a", Int32(4))>>))>>),
     Doc(<<E("$group", Doc(<<E("total", Doc(<<E("$sum", Str("$a"))>>)), E("_id", Str("$b"))>>))>>),
     Doc(<<E("$count", Str("total"))>>),
     Doc(<<E("$lookup", Doc(<<E("a", Str("A"))>>))>>),
     Doc(<<>>),
     Doc(<<E("$limit", Int32(4)), E("$skip", Int32(4))>>),
     Int32(4)}

\* expression operators with named sub-fields
StructuredExprOps ==
    {"$filter", "$map", "$reduce", "$let", "$regexMatch", "$regexFind",
     "$regexFindAll", "$replaceOne", "$replaceAll", "$trim", "$ltrim",
     "$rtrim", "$cond", "$switch"}
UnknownExprOps == {"$foo", "$dateToString"}
ExprOps ==
    UnaryExprOps \cup AccumulatorOps \cup BinaryExprOps \cup VariadicExprOps
    \cup StructuredExprOps \cup UnknownExprOps

\* the values of expression operators: scalars, arrays of every length up
\* to MaxLen + 1 and documents of named sub-fields, some of them absent
ExprLeaves == {Str("$a"), Int32(4), Null}
ArgElements == {Int32(4), Doc(<<E("$toUpper", Str("$a"))>>)}
ArgArrays == {Arr(x) : x \in SeqsUpTo(ArgElements, MaxLen + 1)}
StructuredArgs ==
    {Doc(<<E("input", Str("$a")), E("as", Str("x")),
           E("cond", Doc(<<E("$gte", Arr(<<Str("$$x"), Int32(4)>>))>>)),
           E("in", Doc(<<E("$toUpper", Str("$$x"))>>)),
           E("initialValue", Int32(4)), E("regex", Str("p")),
           E("options", Str("i")), E("find", Str("A")),
           E("replacement", Str("A")), E("chars", Str("A"))>>),
     Doc(<<E("if", Doc(<<E("$gte", Arr(<<Str("$a"), Int32(4)>>))>>)),
           E("then", Bool(TRUE)), E("else", Bool(FALSE)),
           E("vars", Doc(<<E("a", Int32(4))>>)), E("in", Str("$$x")),
           E("branches", Arr(<<>>)), E("default", Str("A"))>>),
     Doc(<<E("input", Str("$a"))>>)}

\* {op: v} for every operator of the tables, and two outside them
FlatExprs ==
    {Doc(<<E(op, v)>>) :
        op \in ExprOps, v \in ExprLeaves \cup ArgArrays \cup StructuredArgs}

\* expressions nested in the argument of another operator
MaxExprDepth == 3
NestOps == {"$toUpper", "$sum", "$not", "$count", "$foo"}
RECURSIVE NestedExprs(_)
NestedExprs(depth) ==
    IF depth = 0 THEN ExprLeaves \cup {Arr(<<Str("$a"), Int32(4)>>)}
    ELSE LET inner == NestedExprs(depth - 1)
         IN  inner
             \cup {Doc(<<E(op, v)>>) : op \in NestOps, v \in inner}
             \cup {Doc(<<E("$add", Arr(<<v, Int32(4)>>))>>) : v \in inner}
             \cup {Doc(<<E("$gte", Arr(<<Str("$a"), v>>))>>) : v \in inner}

FieldStageOps == {"$addFields", "$set", "$project", "$sort"}

\* stages over a document of fields: one field holding an expression, two
\* fields, no field, and a value that is no document
FieldStages ==
    {Doc(<<E(st, Doc(<<E("a", v)>>))>>) :
        st \in FieldStageOps, v \in NestedExprs(MaxExprDepth - 1)}
    \cup {Doc(<<E("$addFields", Doc(<<E("a", v)>>))>>) :
            v \in FlatExprs \cup NestedExprs(MaxExprDepth)}
    \cup {Doc(<<E(st, Doc(<<E("b", Int32(-1)), E("a", v)>>))>>) :
            st \in FieldStageOps,
            v \in {Str("$a"), Doc(<<E("$toUpper", Str("$a"))>>),
                   Doc(<<E("$foo", Int32(4))>>)}}
    \cup {Doc(<<E(st, v)>>) :
            st \in FieldStageOps, v \in {Doc(<<>>), Int32(4), Str("A"), Null}}

\* $group documents: _id at every position, with and without accumulators
GroupElements ==
    {E("_id", Str("$b")), E("_id", Doc(<<E("$toUpper", Str("$b"))>>)),
     E("_id", Null), E("total", Doc(<<E("$sum", Str("$a"))>>)),
     E("a", Doc(<<E("$avg", Str("$a"))>>)), E("b", Int32(4))}
DistinctKeys(elems) ==
    \A i, j \in 1..Len(elems) : elems[i].k = elems[j].k => i = j
GroupStages ==
    {Doc(<<E("$group", Doc(x))>>) :
        x \in {y \in SeqsUpTo(GroupElements, MaxKeys + 1) : DistinctKeys(y)}}
    \cup {Doc(<<E("$group", v)>>) : v \in {Int32(4), Str("A")}}

\* $limit and $skip over every numeric kind, and over values that are none
NumericValues ==
    {Int32(4), Int32(0), Int32(-1), Int64(7), Float64(2, 5), Float64(3, 0),
     Float64(-2, 5), Float64(0, 9)}
NumericStages ==
    {Doc(<<E(st, v)>>) :
        st \in {"$limit", "$skip"},
        v \in NumericValues
              \cup {Str("A"), Null, Arr(<<>>), Doc(<<E("a", Int32(4))>>)}}

\* the remaining stages of the closed set, and stage names outside it
StageOperands ==
    {Str("A"), Int32(4), Null, Arr(<<Str("$a"), Int32(4)>>),
     Doc(<<E("path", Str("$a"))>>),
     Doc(<<E("db", Str("A")), E("coll", Str("A"))>>),
     Doc(<<E("a", Doc(<<E("$toUpper", Str("$a"))>>))>>)}
UnknownStageOps == {"$lookup", "$facet", "$foo"}
OtherStages ==
    {Doc(<<E(st, v)>>) :
        st \in {"$unwind", "$replaceRoot", "$replaceWith", "$out"}
                \cup UnknownStageOps,
        v \in StageOperands}
    \cup {Doc(<<E("$count", v)>>) : v \in {Str("total"), Int32(4), Null}}

SingleStages == FieldStages \cup GroupStages \cup NumericStages \cup OtherStages

Pipelines ==
    {Arr(x) : x \in SeqsUpTo(StageValues, MaxStages)}
    \cup {Arr(<<Doc(<<E("$match", d)>>)>>) : d \in Nested(MaxDepth)}
    \cup {Arr(<<s>>) : s \in SingleStages}
    \cup {Arr(<<Doc(<<E("$limit", Int32(4))>>), s>>) :
            s \in GroupStages \cup NumericStages}

Inputs ==
    {FilterInput(d) : d \in FilterDocs}
    \cup {PipelineInput(a) : a \in Pipelines}
    \cup {FilterInput(Invalid), PipelineInput(Invalid), FilterInput(Str("A"))}

(***************************************************************************)
(* The state machine: one call of Generate on one input.                   *)
(***************************************************************************)
Init ==
    /\ input \in Inputs
    /\ pc = "start"
    /\ raw = <<>>
    /\ code = <<>>
    /\ err = NilErr
    /\ NoCallers /\ NoBuilders /\ NoCollection /\ NoField

Return(r) ==
    /\ raw' = r.raw
    /\ code' = r.code
    /\ err' = r.err
    /\ pc' = "done"
    /\ UNCHANGED <<input, callVars, builderVars, crudVars, fieldVars>>

\* Generate on a text that does not begin with "["
GenerateFilter ==
    /\ pc = "start"
    /\ input.text # "array"
    /\ Return(GenerateFilterResult(input))

\* Generate on a text that begins with "["
GeneratePipeline ==
    /\ pc = "start"
    /\ input.text = "array"
    /\ Return(GeneratePipelineResult(input))

Next == GenerateFilter \/ GeneratePipeline

Spec == Init /\ [][Next]_vars

(***************************************************************************)
(* The builder API the emitted code calls (package gmqb, filter.go): each  *)
(* constructor returns the filter document Filter.d it builds.             *)
(***************************************************************************)
\* the Go int an untyped integer constant becomes
GoInt(x) == [t |-> "int", n |-> x]

Eq(field, value) == Doc(<<E(field, Doc(<<E("$eq", value)>>))>>)
Ne(field, value) == Doc(<<E(field, Doc(<<E("$ne", value)>>))>>)
Gt(field, value) == Doc(<<E(field, Doc(<<E("$gt", value)>>))>>)
Gte(field, value) == Doc(<<E(field, Doc(<<E("$gte", value)>>))>>)
Lt(field, value) == Doc(<<E(field, Doc(<<E("$lt", value)>>))>>)
Lte(field, value) == Doc(<<E(field, Doc(<<E("$lte", value)>>))>>)
\* In, Nin, All: values is the variadic argument list
In(field, values) == Doc(<<E(field, Doc(<<E("$in", Arr(values))>>))>>)
Nin(field, values) == Doc(<<E(field, Doc(<<E("$nin", Arr(values))>>))>>)
All(field, values) == Doc(<<E(field, Doc(<<E("$all", Arr(values))>>))>>)
\* And, Or, Nor: filters is the sequence of the arguments' documents
And(filters) == Doc(<<E("$and", Arr(filters))>>)
Or(filters) == Doc(<<E("$or", Arr(filters))>>)
Nor(filters) == Doc(<<E("$nor", Arr(filters))>>)
Exists(field, exists) == Doc(<<E(field, Doc(<<E("$exists", Bool(exists))>>))>>)
Type(field, typeVal) == Doc(<<E(field, Doc(<<E("$type", typeVal)>>))>>)
Mod(field, divisor, remainder) ==
    Doc(<<E(field, Doc(<<E("$mod", Arr(<<Int64(divisor), Int64(remainder)>>))>>))>>)
Regex(field, pattern, options) ==
    Doc(<<E(field, Doc(<<E("$regex", Str(pattern))>>
                       \o IF options # "" THEN <<E("$options", Str(options))>>
                          ELSE <<>>))>>)
ElemMatch(field, filter) == Doc(<<E(field, Doc(<<E("$elemMatch", filter)>>))>>)
Size(field, n) == Doc(<<E(field, Doc(<<E("$size", GoInt(n))>>))>>)

(***************************************************************************)
(* Properties.  raw is the translator's fragment, code and err are what    *)
(* Generate returned.                                                      *)
(***************************************************************************)
Done == pc = "done"

\* Generate was called on a text that decoded to a filter document
FilterCall == Done /\ input.text = "object" /\ IsDoc(input.val)

\* Generate was called on a text that decoded to a pipeline array
PipelineCall == Done /\ input.text = "array" /\ IsArr(input.val)

\* a translation error: an error and neither a fragment nor code
Failed == err.set /\ raw = <<>> /\ code = <<>>

\* the arguments of a call written one per line: each followed by ",\n"
RECURSIVE ArgLines(_)
ArgLines(frags) ==
    IF Len(frags) = 0 THEN <<>>
    ELSE Head(frags) \o <<",", "\n">> \o ArgLines(Tail(frags))

\* the arguments of a call written on one line: each preceded by ", "
RECURSIVE ArgList(_)
ArgList(frags) ==
    IF Len(frags) = 0 THEN <<>>
    ELSE <<",", " ">> \o Head(frags) \o ArgList(Tail(frags))

AllTranslate(results) == \A i \in 1..Len(results) : ~results[i].err.set

ElementResults(d) ==
    [i \in 1..Len(d.d) |-> translateElement(d.d[i].k, d.d[i].v)]

\* {f: {op: v}}: one field name holding one operator
IsSingleOperator(d) ==
    /\ Len(d.d) = 1
    /\ ~HasDollarPrefix(d.d[1].k)
    /\ IsDoc(d.d[1].v)
    /\ Len(d.d[1].v.d) = 1
    /\ HasDollarPrefix(d.d[1].v.d[1].k)

FieldOf(d) == d.d[1].k
OperatorOf(d) == d.d[1].v.d[1].k
OperandOf(d) == d.d[1].v.d[1].v

\* the number of commas of a text that lie directly inside its outermost
\* brackets
TopLevelCommas(text) ==
    Cardinality({i \in 1..Len(text) :
        /\ text[i] = ","
        /\ Cardinality({j \in 1..(i - 1) : text[j] \in {"(", "{"}})
           - Cardinality({j \in 1..(i - 1) : text[j] \in {")", "}"}}) = 1})

\* the places where the translator applies a logical key or a field
\* operator, through every enclosing $and/$or/$nor and $elemMatch
RECURSIVE OperatorSites(_)
RECURSIVE ElementSites(_, _)
ElementSites(key, val) ==
    IF key \in LogicalKeys
    THEN {[kind |-> "logical", op |-> key, val |-> val]}
         \cup (IF IsArr(val)
               THEN UNION {IF IsDoc(val.a[i]) THEN OperatorSites(val.a[i]) ELSE {} :
                              i \in 1..Len(val.a)}
               ELSE {})
    ELSE IF HasOps(val)
    THEN UNION {{[kind |-> "operator", op |-> val.d[i].k, val |-> val.d[i].v]}
                \cup (IF val.d[i].k = "$elemMatch" /\ IsDoc(val.d[i].v)
                      THEN OperatorSites(val.d[i].v) ELSE {}) :
                   i \in 1..Len(val.d)}
    ELSE {}

OperatorSites(d) == UNION {ElementSites(d.d[i].k, d.d[i].v) : i \in 1..Len(d.d)}

\* a pipeline of one $match stage over a document
IsMatchPipeline(a) ==
    /\ Len(a.a) = 1
    /\ IsDoc(a.a[1])
    /\ Len(a.a[1].d) = 1
    /\ a.a[1].d[1].k = "$match"
    /\ IsDoc(a.a[1].d[1].v)

\* the sites of the input: of the filter document, or of the $match stage
InputSites ==
    IF input.text = "object" /\ IsDoc(input.val) THEN OperatorSites(input.val)
    ELSE IF input.text = "array" /\ IsArr(input.val) /\ IsMatchPipeline(input.val)
    THEN OperatorSites(input.val.a[1].d[1].v)
    ELSE {}

MalformedMod(s) ==
    s.kind = "operator" /\ s.op = "$mod" /\ (~IsArr(s.val) \/ Len(s.val.a) # 2)

Unsupported(s) == s.kind = "operator" /\ s.op \notin FieldOperators

MalformedElemMatch(s) ==
    s.kind = "operator" /\ s.op = "$elemMatch" /\ ~IsDoc(s.val)

MalformedLogical(s) ==
    /\ s.kind = "logical"
    /\ (~IsArr(s.val) \/ \E i \in 1..Len(s.val.a) : ~IsDoc(s.val.a[i]))

(***************************************************************************)
(* C1: translateDoc on a document whose elements all translate: the empty  *)
(* document gives the empty fragment, one element gives that element's     *)
(* fragment unwrapped, two or more give one gmqb.And call whose arguments  *)
(* are the element fragments in key order.                                 *)
(***************************************************************************)
C1_Shape(d, results) ==
    AllTranslate(results) =>
        CASE Len(d.d) = 0 -> raw = <<>> /\ code = <<>> /\ ~err.set
          [] Len(d.d) = 1 -> raw = results[1].code
          [] OTHER -> raw = <<"gmqb.And", "(", "\n">>
                            \o ArgLines(Codes(results)) \o <<")">>

C1_ImplicitAnd == FilterCall => C1_Shape(input.val, ElementResults(input.val))

C1_Witness ==
    /\ FilterCall
    /\ input.val = Doc(<<E("b", Int32(4)), E("a", Doc(<<E("$gte", Int32(4))>>))>>)
    /\ raw = <<"gmqb.And", "(", "\n",
               "gmqb.Eq", "(", "\"b\"", ",", " ", "4", ")", ",", "\n",
               "gmqb.Gte", "(", "\"a\"", ",", " ", "4", ")", ",", "\n", ")">>
    /\ ~err.set

(***************************************************************************)
(* C2: {f: {op: v}} with op one of $eq, $ne, $gt, $gte, $lt, $lte,         *)
(* $exists, $type, $size gives exactly the call Op(f, formatValue(v)) of   *)
(* the builder named after the operator, with one value argument.          *)
(***************************************************************************)
ScalarOperators ==
    {"$eq", "$ne", "$gt", "$gte", "$lt", "$lte", "$exists", "$type", "$size"}

ScalarBuilder(op) ==
    CASE op = "$eq" -> "gmqb.Eq"
      [] op = "$ne" -> "gmqb.Ne"
      [] op = "$gt" -> "gmqb.Gt"
      [] op = "$gte" -> "gmqb.Gte"
      [] op = "$lt" -> "gmqb.Lt"
      [] op = "$lte" -> "gmqb.Lte"
      [] op = "$exists" -> "gmqb.Exists"
      [] op = "$type" -> "gmqb.Type"
      [] op = "$size" -> "gmqb.Size"

C2_ScalarOperator ==
    (FilterCall /\ IsSingleOperator(input.val)
        /\ OperatorOf(input.val) \in ScalarOperators)
    => /\ raw = <<ScalarBuilder(OperatorOf(input.val)), "(",
                  GoQuote(FieldOf(input.val)), ",", " ">>
                \o formatValue(OperandOf(input.val)) \o <<")">>
       /\ TopLevelCommas(raw) = 1

C2_Witness ==
    /\ FilterCall
    /\ input.val = Doc(<<E("a", Doc(<<E("$size", Arr(<<Int32(4), Str("A")>>))>>))>>)
    /\ raw = <<"gmqb.Size", "(", "\"a\"", ",", " ",
               "bson.A", "{", "4", ",", " ", "\"A\"", "}", ")">>

(***************************************************************************)
(* C3: for a $and/$or/$nor key whose value is an array of documents the    *)
(* result is the And/Or/Nor call whose arguments are translateDoc of each  *)
(* element, in array order; a value that is no array, or an element that   *)
(* is no document, fails with an error and no fragment.                    *)
(***************************************************************************)
LogicalBuilder(key) ==
    CASE key = "$and" -> "gmqb.And"
      [] key = "$or" -> "gmqb.Or"
      [] key = "$nor" -> "gmqb.Nor"

IsArrayOfDocs(val) == IsArr(val) /\ \A i \in 1..Len(val.a) : IsDoc(val.a[i])

SubResults(val) == [i \in 1..Len(val.a) |-> translateDoc(val.a[i])]

C3_Shape(key, val) ==
    IF IsArrayOfDocs(val)
    THEN AllTranslate(SubResults(val)) =>
            raw = <<LogicalBuilder(key), "(", "\n">>
                  \o ArgLines(Codes(SubResults(val))) \o <<")">>
    ELSE Failed

C3_LogicalCall ==
    (FilterCall /\ Len(input.val.d) = 1 /\ input.val.d[1].k \in LogicalKeys)
    => C3_Shape(input.val.d[1].k, input.val.d[1].v)

(***************************************************************************)
(* C4: for $in, $nin and $all an array value [e1..en] gives                *)
(* In/Nin/All(field, formatValue(e1), ..., formatValue(en)) in array       *)
(* order (the fragment compared in gofmt's layout), and a value that is no *)
(* array fails with an error instead of emitting a call.                   *)
(***************************************************************************)
ListOperators == {"$in", "$nin", "$all"}

ListBuilder(op) ==
    CASE op = "$in" -> "gmqb.In"
      [] op = "$nin" -> "gmqb.Nin"
      [] op = "$all" -> "gmqb.All"

C4_Shape(field, op, val) ==
    IF IsArr(val)
    THEN Layout(raw)
         = Layout(<<ListBuilder(op), "(", GoQuote(field)>>
                  \o ArgList([i \in 1..Len(val.a) |-> formatValue(val.a[i])])
                  \o <<")">>)
    ELSE Failed

C4_ListOperator ==
    (FilterCall /\ IsSingleOperator(input.val)
        /\ OperatorOf(input.val) \in ListOperators)
    => C4_Shape(FieldOf(input.val), OperatorOf(input.val), OperandOf(input.val))

(***************************************************************************)
(* C5: {f: {$elemMatch: d}} with a document d gives                        *)
(* ElemMatch(f, translateDoc(d)), the recursive translation being the      *)
(* nested argument (a multi-key d is nested as an implicit And); a value   *)
(* that is no document, or a d that fails to translate, fails the whole    *)
(* translation.                                                            *)
(***************************************************************************)
C5_Nested(field, val, sub) ==
    IF ~sub.err.set
    THEN /\ raw = <<"gmqb.ElemMatch", "(", GoQuote(field), ",", " ">>
                  \o sub.code \o <<")">>
         /\ Len(val.d) >= 2 => sub.code[1] = "gmqb.And"
    ELSE Failed /\ err = sub.err

C5_Shape(field, val) ==
    IF IsDoc(val) THEN C5_Nested(field, val, translateDoc(val)) ELSE Failed

C5_ElemMatch ==
    (FilterCall /\ IsSingleOperator(input.val)
        /\ OperatorOf(input.val) = "$elemMatch")
    => C5_Shape(FieldOf(input.val), OperandOf(input.val))

C5_Witness ==
    /\ FilterCall
    /\ input.val = Doc(<<E("a", Doc(<<E("$elemMatch",
                        Doc(<<E("a", Str("A")), E("b", Int32(4))>>))>>))>>)
    /\ raw = <<"gmqb.ElemMatch", "(", "\"a\"", ",", " ",
               "gmqb.And", "(", "\n",
               "gmqb.Eq", "(", "\"a\"", ",", " ", "\"A\"", ")", ",", "\n",
               "gmqb.Eq", "(", "\"b\"", ",", " ", "4", ")", ",", "\n", ")", ")">>
    /\ ~err.set

(***************************************************************************)
(* C6: {f: {$mod: [d, r]}} gives Mod(f, formatValue(d), formatValue(r));   *)
(* a $mod whose value is no array of exactly two elements fails with the   *)
(* $mod error and an empty fragment, wherever in the filter it is nested.  *)
(***************************************************************************)
C6_Mod ==
    /\ (FilterCall /\ IsSingleOperator(input.val) /\ OperatorOf(input.val) = "$mod")
       => IF MalformedMod([kind |-> "operator", op |-> "$mod",
                           val |-> OperandOf(input.val)])
          THEN Failed /\ err.msg = "invalid $mod value"
          ELSE raw = <<"gmqb.Mod", "(", GoQuote(FieldOf(input.val)), ",", " ">>
                     \o formatValue(OperandOf(input.val).a[1]) \o <<",", " ">>
                     \o formatValue(OperandOf(input.val).a[2]) \o <<")">>
    /\ (Done /\ \E s \in InputSites : MalformedMod(s))
       => /\ Failed
          /\ (\A s \in InputSites : ~Unsupported(s) /\ ~MalformedElemMatch(s)
                                    /\ ~MalformedLogical(s))
             => err.msg = "invalid $mod value"

C6_Witness ==
    /\ FilterCall
    /\ input.val = Doc(<<E("$nor", Arr(<<Doc(<<E("a", Str("A"))>>),
                        Doc(<<E("b", Doc(<<E("$mod", Arr(<<Int32(4)>>))>>))>>)>>))>>)
    /\ Failed
    /\ err.msg = "invalid $mod value"

(***************************************************************************)
(* C7: a '$'-prefixed key of an operator document outside the 15 field     *)
(* operators fails the translation with an error naming the operator; the  *)
(* failure passes through every enclosing $and/$or/$nor, $elemMatch and    *)
(* $match, so Generate returns an error and no code.                       *)
(***************************************************************************)
C7_Unsupported ==
    (Done /\ \E s \in InputSites : Unsupported(s))
    => /\ Failed
       /\ (\A s \in InputSites : ~MalformedMod(s) /\ ~MalformedElemMatch(s)
                                 /\ ~MalformedLogical(s))
          => \E s \in InputSites :
                Unsupported(s) /\ err.msg = "unsupported operator: " \o s.op

C7_Witness ==
    /\ PipelineCall
    /\ input.val = Arr(<<Doc(<<E("$match",
                        Doc(<<E("a", Doc(<<E("$elemMatch",
                            Doc(<<E("a", Doc(<<E("$foo", Int32(4))>>))>>))>>))>>))>>)>>)
    /\ Failed
    /\ err.msg = "unsupported operator: $foo"

(***************************************************************************)
(* C8: a field whose operator document holds several operators: the        *)
(* operator fragments are wrapped in a gmqb.And of their own, in operator  *)
(* order; that And is the field's one fragment, the whole result when the  *)
(* field is the only key and one argument of the enclosing document's      *)
(* implicit And otherwise.                                                 *)
(***************************************************************************)
IsMultiOperator(val) == HasOps(val) /\ Len(val.d) >= 2

HasMultiOperator(d) == \E i \in 1..Len(d.d) : IsMultiOperator(d.d[i].v)

OperatorFragments(key, val) ==
    [i \in 1..Len(val.d) |-> translateOperator(key, val.d[i].k, val.d[i].v).code]

\* the field's fragment: its operators under an And of their own
NestedFragment(key, val) ==
    IF IsMultiOperator(val)
    THEN <<"gmqb.And", "(", "\n">> \o ArgLines(OperatorFragments(key, val)) \o <<")">>
    ELSE translateElement(key, val).code

\* the field's fragments: one per operator
SiblingFragments(key, val) ==
    IF IsMultiOperator(val) THEN OperatorFragments(key, val)
    ELSE <<translateElement(key, val).code>>

RECURSIVE Flatten(_)
Flatten(seqs) == IF Len(seqs) = 0 THEN <<>> ELSE Head(seqs) \o Flatten(Tail(seqs))

C8_NestedShape(d) ==
    IF Len(d.d) = 1 THEN raw = NestedFragment(d.d[1].k, d.d[1].v)
    ELSE raw = <<"gmqb.And", "(", "\n">>
               \o ArgLines([i \in 1..Len(d.d) |-> NestedFragment(d.d[i].k, d.d[i].v)])
               \o <<")">>

C8_OperatorAnd ==
    (FilterCall /\ HasMultiOperator(input.val)
        /\ AllTranslate(ElementResults(input.val)))
    => C8_NestedShape(input.val)

C8_Witness ==
    /\ FilterCall
    /\ input.val = Doc(<<E("a", Str("A")),
                         E("b", Doc(<<E("$gte", Int32(4)), E("$lt", Int64(7))>>))>>)
    /\ raw = <<"gmqb.And", "(", "\n",
               "gmqb.Eq", "(", "\"a\"", ",", " ", "\"A\"", ")", ",", "\n",
               "gmqb.And", "(", "\n",
               "gmqb.Gte", "(", "\"b\"", ",", " ", "4", ")", ",", "\n",
               "gmqb.Lt", "(", "\"b\"", ",", " ", "7", ")", ",", "\n", ")",
               ",", "\n", ")">>
    /\ ~err.set

\* C8 as the specification words it: each operator of the field gives a
\* fragment of its own, a sibling of the other fields' fragments under the
\* one implicit And of the enclosing document, with no And of their own.
C8_Siblings ==
    (FilterCall /\ HasMultiOperator(input.val)
        /\ AllTranslate(ElementResults(input.val)))
    => raw = <<"gmqb.And", "(", "\n">>
             \o ArgLines(Flatten([i \in 1..Len(input.val.d) |->
                     SiblingFragments(input.val.d[i].k, input.val.d[i].v)]))
             \o <<")">>

(***************************************************************************)
(* Evaluation of an emitted builder expression: the Go value of a literal  *)
(* and the filter document a builder call returns.  Invalid stands for an  *)
(* expression that does not compile.                                       *)
(***************************************************************************)
Digits == 0..9

\* the strings the literals of the model quote
QuotedStrings ==
    PlainKeys \cup FieldOperators \cup UnsupportedOperators \cup LogicalKeys
    \cup {"A", "p", "i", "$a", "$b", "0123456789abcdef01234567"}

\* a basic literal: an integer constant, a float constant, a boolean or an
\* interpreted string
GoLiteral(tok) ==
    IF tok \in {"true", "false"} THEN Bool(tok = "true")
    ELSE IF \E n \in Digits : tok = ToString(n)
    THEN GoInt(CHOOSE n \in Digits : tok = ToString(n))
    ELSE IF \E i, f \in Digits : tok = ToString(i) \o "." \o ToString(f)
    THEN LET p == CHOOSE p \in Digits \X Digits :
                     tok = ToString(p[1]) \o "." \o ToString(p[2])
         IN  Float64(p[1], p[2])
    ELSE IF \E str \in QuotedStrings : tok = GoQuote(str)
    THEN Str(CHOOSE str \in QuotedStrings : tok = GoQuote(str))
    ELSE Invalid

ArrOf(vals) ==
    IF \E i \in 1..Len(vals) : vals[i] = Invalid THEN Invalid ELSE Arr(vals)

DocOf(pairs) ==
    IF \E i \in 1..Len(pairs) : pairs[i] = Invalid THEN Invalid ELSE Doc(pairs)

PairOf(key, val) ==
    IF key.t # "string" \/ val = Invalid THEN Invalid ELSE E(key.s, val)

ObjectIDOf(hex) == IF hex.t = "string" THEN ObjectID(hex.s) ELSE Invalid

RECURSIVE EvalValue(_)
RECURSIVE EvalPair(_)
EvalValue(node) ==
    CASE node.n = "tok" -> GoLiteral(node.tok)
      [] node.n = "oid" -> ObjectIDOf(GoLiteral(node.hex))
      [] node.n = "comp" /\ node.ty = "bson.A" ->
            ArrOf([i \in 1..Len(node.elems) |-> EvalValue(node.elems[i])])
      [] node.n = "comp" /\ node.ty = "bson.D" ->
            DocOf([i \in 1..Len(node.elems) |-> EvalPair(node.elems[i])])
      [] OTHER -> Invalid

EvalPair(node) ==
    IF node.n = "comp" /\ node.ty = "" /\ Len(node.elems) = 2
    THEN PairOf(EvalValue(node.elems[1]), EvalValue(node.elems[2]))
    ELSE Invalid

ValueBuilders ==
    {"gmqb.Eq", "gmqb.Ne", "gmqb.Gt", "gmqb.Gte", "gmqb.Lt", "gmqb.Lte", "gmqb.Type"}
ListBuilders == {"gmqb.In", "gmqb.Nin", "gmqb.All"}
LogicalBuilders == {"gmqb.And", "gmqb.Or", "gmqb.Nor"}

\* a call of a constructor whose parameters are (field string, ...values)
ApplyField(fn, vals) ==
    IF Len(vals) = 0 \/ \E i \in 1..Len(vals) : vals[i] = Invalid THEN Invalid
    ELSE IF vals[1].t # "string" THEN Invalid
    ELSE CASE fn \in ValueBuilders /\ Len(vals) = 2 ->
                 CASE fn = "gmqb.Eq" -> Eq(vals[1].s, vals[2])
                   [] fn = "gmqb.Ne" -> Ne(vals[1].s, vals[2])
                   [] fn = "gmqb.Gt" -> Gt(vals[1].s, vals[2])
                   [] fn = "gmqb.Gte" -> Gte(vals[1].s, vals[2])
                   [] fn = "gmqb.Lt" -> Lt(vals[1].s, vals[2])
                   [] fn = "gmqb.Lte" -> Lte(vals[1].s, vals[2])
                   [] fn = "gmqb.Type" -> Type(vals[1].s, vals[2])
           [] fn = "gmqb.In" -> In(vals[1].s, Tail(vals))
           [] fn = "gmqb.Nin" -> Nin(vals[1].s, Tail(vals))
           [] fn = "gmqb.All" -> All(vals[1].s, Tail(vals))
           [] fn = "gmqb.Exists" /\ Len(vals) = 2 /\ vals[2].t = "bool" ->
                 Exists(vals[1].s, vals[2].b)
           [] fn = "gmqb.Size" /\ Len(vals) = 2 /\ vals[2].t = "int" ->
                 Size(vals[1].s, vals[2].n)
           [] fn = "gmqb.Mod" /\ Len(vals) = 3 /\ vals[2].t = "int"
              /\ vals[3].t = "int" ->
                 Mod(vals[1].s, vals[2].n, vals[3].n)
           [] fn = "gmqb.Regex" /\ Len(vals) = 3 /\ vals[2].t = "string"
              /\ vals[3].t = "string" ->
                 Regex(vals[1].s, vals[2].s, vals[3].s)
           [] OTHER -> Invalid

ApplyLogical(fn, filters) ==
    IF \E i \in 1..Len(filters) : filters[i] = Invalid THEN Invalid
    ELSE CASE fn = "gmqb.And" -> And(filters)
           [] fn = "gmqb.Or" -> Or(filters)
           [] fn = "gmqb.Nor" -> Nor(filters)

ApplyElemMatch(field, filter) ==
    IF field.t # "string" \/ filter = Invalid THEN Invalid
    ELSE ElemMatch(field.s, filter)

RECURSIVE EvalFilter(_)
EvalFilter(node) ==
    IF node.n # "call" THEN Invalid
    ELSE IF node.fn \in LogicalBuilders
    THEN ApplyLogical(node.fn, [i \in 1..Len(node.args) |-> EvalFilter(node.args[i])])
    ELSE IF node.fn = "gmqb.ElemMatch"
    THEN IF Len(node.args) # 2 THEN Invalid
         ELSE ApplyElemMatch(EvalValue(node.args[1]), EvalFilter(node.args[2]))
    ELSE ApplyField(node.fn, [i \in 1..Len(node.args) |-> EvalValue(node.args[i])])

EvalParsed(parsed) == IF parsed.ok THEN EvalFilter(parsed.node) ELSE Invalid

\* the filter document the text builds, Invalid when it is no builder
\* expression
EvalSource(text) == EvalParsed(ParseSource(text))

(***************************************************************************)
(* Equivalence of filter documents: numbers are compared by value,         *)
(* {f: v} is {f: {$eq: v}}, and a document of several keys (or a field     *)
(* with several operators) is the $and of its single-key parts.            *)
(***************************************************************************)
RECURSIVE CanonValue(_)
CanonValue(v) ==
    CASE v.t \in {"int32", "int64", "int"} -> [t |-> "number", ip |-> v.n, fr |-> 0]
      [] v.t = "float64" -> [t |-> "number", ip |-> v.ip, fr |-> v.fr]
      [] v.t = "array" -> Arr([i \in 1..Len(v.a) |-> CanonValue(v.a[i])])
      [] v.t = "doc" ->
            Doc([i \in 1..Len(v.d) |-> E(v.d[i].k, CanonValue(v.d[i].v))])
      [] OTHER -> v

RECURSIVE CanonFilter(_)
RECURSIVE CanonElement(_, _)
CanonElement(key, val) ==
    IF key \in LogicalKeys
    THEN IF IsArrayOfDocs(val)
         THEN Doc(<<E(key, Arr([i \in 1..Len(val.a) |-> CanonFilter(val.a[i])]))>>)
         ELSE Doc(<<E(key, CanonValue(val))>>)
    ELSE IF HasOps(val)
    THEN IF Len(val.d) >= 2
         THEN And([i \in 1..Len(val.d) |-> CanonElement(key, Doc(<<val.d[i]>>))])
         ELSE IF val.d[1].k = "$elemMatch" /\ IsDoc(val.d[1].v)
         THEN ElemMatch(key, CanonFilter(val.d[1].v))
         ELSE Doc(<<E(key, Doc(<<E(val.d[1].k, CanonValue(val.d[1].v))>>))>>)
    ELSE Eq(key, CanonValue(val))

CanonFilter(d) ==
    IF Len(d.d) = 0 THEN d
    ELSE IF Len(d.d) >= 2
    THEN And([i \in 1..Len(d.d) |-> CanonElement(d.d[i].k, d.d[i].v)])
    ELSE CanonElement(d.d[1].k, d.d[1].v)

Equivalent(built, d) == built # Invalid /\ CanonFilter(built) = CanonFilter(d)

\* the operand an operator takes in a well-formed query
WellFormed(op, val) ==
    CASE op \in {"$in", "$nin", "$all"} -> IsArr(val)
      [] op = "$mod" ->
            /\ IsArr(val)
            /\ Len(val.a) = 2
            /\ \A i \in 1..2 : val.a[i].t \in {"int32", "int64"}
      [] op = "$exists" -> val.t = "bool"
      [] op = "$size" -> val.t \in {"int32", "int64"}
      [] op = "$type" -> val.t \in {"string", "int32", "int64"}
      [] op = "$regex" -> val.t = "string"
      [] op = "$elemMatch" -> IsDoc(val)
      [] OTHER -> TRUE

\* a filter document built only from supported constructs
RECURSIVE Supported(_)
Supported(d) ==
    \A i \in 1..Len(d.d) :
        IF d.d[i].k \in LogicalKeys
        THEN /\ IsArrayOfDocs(d.d[i].v)
             /\ \A j \in 1..Len(d.d[i].v.a) : Supported(d.d[i].v.a[j])
        ELSE /\ ~HasDollarPrefix(d.d[i].k)
             /\ HasOps(d.d[i].v) =>
                   \A j \in 1..Len(d.d[i].v.d) :
                       /\ d.d[i].v.d[j].k \in FieldOperators
                       /\ WellFormed(d.d[i].v.d[j].k, d.d[i].v.d[j].v)
                       /\ (d.d[i].v.d[j].k = "$elemMatch")
                          => Supported(d.d[i].v.d[j].v)

(***************************************************************************)
(* C9: for a filter document built only from supported constructs (bare    *)
(* equality, the 15 field operators with well-formed values, $and/$or/$nor *)
(* over such documents, $elemMatch over a sub-document) Generate succeeds  *)
(* and the emitted builder expression, evaluated with the builder API,     *)
(* builds a filter document equivalent to the input.                       *)
(***************************************************************************)
C9_Equivalence ==
    (FilterCall /\ Len(input.val.d) > 0 /\ Supported(input.val))
    => ~err.set /\ Equivalent(EvalSource(code), input.val)

(***************************************************************************)
(* C10: translatePipeline on n stages that all translate gives             *)
(* NewPipeline() followed by exactly n chained stage calls, one per line,  *)
(* in the order of the array; for n = 0 it gives NewPipeline() alone.      *)
(***************************************************************************)
StageResults(a) ==
    [i \in 1..Len(a.a) |->
        IF IsDoc(a.a[i]) THEN translatePipelineStage(a.a[i])
        ELSE Ret(<<>>, Errorf("no document"))]

\* the chained calls written one per line: each preceded by ".\n"
RECURSIVE ChainLines(_)
ChainLines(frags) ==
    IF Len(frags) = 0 THEN <<>>
    ELSE <<".", "\n">> \o Head(frags) \o ChainLines(Tail(frags))

\* the number of method calls chained on the innermost receiver
RECURSIVE ChainLength(_)
ChainLength(node) ==
    IF node.n = "mcall" THEN 1 + ChainLength(node.recv) ELSE 0

\* the line breaks of a text that lie outside every bracket
OuterLineBreaks(text) ==
    Cardinality({i \in 1..Len(text) :
        /\ text[i] = "\n"
        /\ Cardinality({j \in 1..(i - 1) : text[j] \in {"(", "{"}})
           = Cardinality({j \in 1..(i - 1) : text[j] \in {")", "}"}})})

C10_Shape(a, results) ==
    AllTranslate(results) =>
        /\ raw = <<"gmqb.NewPipeline", "(", ")">> \o ChainLines(Codes(results))
        /\ OuterLineBreaks(raw) = Len(a.a)
        /\ ~err.set => /\ ChainLength(ParseSource(code).node) = Len(a.a)
                       /\ OuterLineBreaks(code) = Len(a.a)

C10_Chain == PipelineCall => C10_Shape(input.val, StageResults(input.val))

C10_Witness ==
    /\ PipelineCall
    /\ input.val = Arr(<<Doc(<<E("$match", Doc(<<E("a", Str("A"))>>))>>),
                         Doc(<<E("$limit", Int32(4))>>)>>)
    /\ raw = <<"gmqb.NewPipeline", "(", ")", ".", "\n",
               "Match", "(", "gmqb.Eq", "(", "\"a\"", ",", " ", "\"A\"", ")", ")",
               ".", "\n", "Limit", "(", "4", ")">>
    /\ ~err.set

(***************************************************************************)
(* C11: a pipeline holding a stage that is no document, or a stage         *)
(* document with no key or with more than one key, fails as a whole: an    *)
(* error and no text, whatever the stages before it were.                  *)
(***************************************************************************)
BadStage(s) == ~IsDoc(s) \/ Len(s.d) # 1

C11_StageArity ==
    (PipelineCall /\ \E i \in 1..Len(input.val.a) : BadStage(input.val.a[i]))
    => Failed

C11_Witness ==
    /\ PipelineCall
    /\ input.val = Arr(<<Doc(<<E("$limit", Int32(4))>>),
                         Doc(<<E("$limit", Int32(4)), E("$skip", Int32(4))>>)>>)
    /\ Failed
    /\ err.msg = "pipeline stage must have exactly one top-level operator, got 2"

(***************************************************************************)
(* C12: a $group stage over a document holding _id gives                   *)
(* Group(GroupSpec(id, GroupAcc(name, expr), ...)): the _id value is the   *)
(* first argument wherever the _id key stands, every other field is one    *)
(* GroupAcc argument, in the order of the input; with _id alone GroupSpec  *)
(* has the id as its single argument.                                      *)
(***************************************************************************)
\* a stage document with the one key stageOp
IsStage(s, stageOp) == IsDoc(s) /\ Len(s.d) = 1 /\ s.d[1].k = stageOp

\* the pipeline's last stage, and the text emitted for it: what follows the
\* last ".\n" that lies outside every bracket
LastStage(a) == a.a[Len(a.a)]

EndsWith(text, frag) ==
    /\ Len(text) >= Len(frag) + 2
    /\ SubSeq(text, Len(text) - Len(frag) + 1, Len(text)) = frag
    /\ SubSeq(text, Len(text) - Len(frag) - 1, Len(text) - Len(frag)) = <<".", "\n">>

\* the stages before the last all translate
EarlierTranslate(a) ==
    \A i \in 1..(Len(a.a) - 1) :
        IsDoc(a.a[i]) /\ ~translatePipelineStage(a.a[i]).err.set

HasId(d) == \E i \in 1..Len(d.d) : d.d[i].k = "_id"
IdValue(d) == d.d[CHOOSE i \in 1..Len(d.d) : d.d[i].k = "_id"].v
NotId(e) == e.k # "_id"

\* the accumulator arguments, one per line
RECURSIVE AccLines(_)
AccLines(elems) ==
    IF Len(elems) = 0 THEN <<>>
    ELSE <<"\n", "\t", "gmqb.GroupAcc", "(", GoQuote(Head(elems).k), ",", " ">>
         \o formatExpressionValue(Head(elems).v) \o <<")", ",">>
         \o AccLines(Tail(elems))

\* the parsed stage call: Group(gmqb.GroupSpec(id, gmqb.GroupAcc("k", _)...))
GroupSpecNode(node, others) ==
    /\ node.n = "mcall" /\ node.m = "Group" /\ Len(node.margs) = 1
    /\ node.margs[1].n = "call" /\ node.margs[1].fn = "gmqb.GroupSpec"
    /\ Len(node.margs[1].args) = 1 + Len(others)
    /\ \A i \in 1..Len(others) :
          LET acc == node.margs[1].args[i + 1]
          IN  /\ acc.n = "call" /\ acc.fn = "gmqb.GroupAcc"
              /\ Len(acc.args) = 2
              /\ acc.args[1] = [n |-> "tok", tok |-> GoQuote(others[i].k)]

C12_Shape(idVal, others) ==
    /\ EndsWith(raw,
                <<"Group", "(", "gmqb.GroupSpec", "(">>
                \o formatExpressionValue(idVal)
                \o (IF Len(others) = 0 THEN <<>>
                    ELSE <<",">> \o AccLines(others) \o <<"\n">>)
                \o <<")", ")">>)
    /\ ~err.set => GroupSpecNode(ParseSource(code).node, others)

C12_Group ==
    (PipelineCall /\ Len(input.val.a) > 0
        /\ IsStage(LastStage(input.val), "$group")
        /\ IsDoc(LastStage(input.val).d[1].v)
        /\ HasId(LastStage(input.val).d[1].v)
        /\ EarlierTranslate(input.val))
    => C12_Shape(IdValue(LastStage(input.val).d[1].v),
                 SelectSeq(LastStage(input.val).d[1].v.d, NotId))

C12_Witness ==
    /\ PipelineCall
    /\ input.val = Arr(<<Doc(<<E("$group",
                         Doc(<<E("total", Doc(<<E("$sum", Str("$a"))>>)),
                               E("_id", Str("$b")),
                               E("b", Int32(4))>>))>>)>>)
    /\ raw = <<"gmqb.NewPipeline", "(", ")", ".", "\n",
               "Group", "(", "gmqb.GroupSpec", "(", "\"$b\"", ",", "\n", "\t",
               "gmqb.GroupAcc", "(", "\"total\"", ",", " ",
               "gmqb.AccSum", "(", "\"$a\"", ")", ")", ",", "\n", "\t",
               "gmqb.GroupAcc", "(", "\"b\"", ",", " ", "4", ")", ",", "\n",
               ")", ")">>
    /\ ~err.set

(***************************************************************************)
(* C13: graceful degradation.  translateExpression returns no error for a  *)
(* single-key '$'-prefixed document, and an operator outside its closed    *)
(* set is emitted as the raw pair bson.D{{op, value}}; a stage whose name  *)
(* is outside the closed set of stages is emitted as                       *)
(* RawStage(name, formatValue(value)) and is no error either.              *)
(***************************************************************************)
KnownExprOps ==
    UnaryExprOps \cup AccumulatorOps \cup BinaryExprOps \cup VariadicExprOps
    \cup {"$filter", "$map", "$reduce", "$let", "$regexMatch", "$regexFind",
          "$regexFindAll", "$replaceOne", "$replaceAll", "$trim", "$ltrim",
          "$rtrim", "$cond", "$switch"}

KnownStageOps ==
    {"$match", "$addFields", "$set", "$project", "$sort", "$group", "$limit",
     "$skip", "$count", "$unwind", "$replaceRoot", "$replaceWith", "$out"}

\* a single-key document whose key begins with '$'
IsExprDoc(v) == IsDoc(v) /\ Len(v.d) = 1 /\ HasDollarPrefix(v.d[1].k)

\* the last stage is {stageOp: {"a": v}} and the stages before it translate
IsFieldStage(a, stageOp) ==
    /\ Len(a.a) > 0
    /\ IsStage(LastStage(a), stageOp)
    /\ IsDoc(LastStage(a).d[1].v)
    /\ Len(LastStage(a).d[1].v.d) = 1
    /\ EarlierTranslate(a)

FieldValue(a) == LastStage(a).d[1].v.d[1].v
FieldKey(a) == LastStage(a).d[1].v.d[1].k

\* AddFields(gmqb.AddFieldsSpec(\n\tgmqb.AddField("key", text),\n))
AddFieldsText(key, text) ==
    <<"AddFields", "(", "gmqb.AddFieldsSpec", "(", "\n", "\t",
      "gmqb.AddField", "(", GoQuote(key), ",", " ">>
    \o text \o <<")", ",", "\n", ")", ")">>

\* the parsed argument of the one AddField call of the last stage
AddFieldArg(node) == node.margs[1].args[1].args[2]

\* bson.D{{"op", _}}
IsRawPairNode(node, op) ==
    /\ node.n = "comp" /\ node.ty = "bson.D" /\ Len(node.elems) = 1
    /\ node.elems[1].n = "comp" /\ Len(node.elems[1].elems) = 2
    /\ node.elems[1].elems[1] = [n |-> "tok", tok |-> GoQuote(op)]

C13_Expression(key, val) ==
    /\ ~translateExpression(val).err.set
    /\ ~Failed
    /\ val.d[1].k \notin KnownExprOps =>
          /\ EndsWith(raw, AddFieldsText(key,
                <<"bson.D", "{", "{", GoQuote(val.d[1].k), ",", " ">>
                \o formatExpressionValue(val.d[1].v) \o <<"}", "}">>))
          /\ ~err.set =>
                IsRawPairNode(AddFieldArg(ParseSource(code).node), val.d[1].k)

C13_Stage(stageOp, stageVal) ==
    /\ ~Failed
    /\ EndsWith(raw, <<"RawStage", "(", GoQuote(stageOp), ",", " ">>
                     \o formatValue(stageVal) \o <<")">>)

C13_Degrade ==
    /\ (PipelineCall /\ IsFieldStage(input.val, "$addFields")
            /\ IsExprDoc(FieldValue(input.val)))
       => C13_Expression(FieldKey(input.val), FieldValue(input.val))
    /\ (PipelineCall /\ Len(input.val.a) > 0 /\ EarlierTranslate(input.val)
            /\ IsDoc(LastStage(input.val)) /\ Len(LastStage(input.val).d) = 1
            /\ LastStage(input.val).d[1].k \notin KnownStageOps)
       => C13_Stage(LastStage(input.val).d[1].k, LastStage(input.val).d[1].v)

C13_Witness ==
    /\ PipelineCall
    /\ input.val = Arr(<<Doc(<<E("$addFields", Doc(<<E("a",
                         Doc(<<E("$foo", Doc(<<E("$toUpper", Str("$a"))>>))>>))>>))>>)>>)
    /\ raw = <<"gmqb.NewPipeline", "(", ")", ".", "\n",
               "AddFields", "(", "gmqb.AddFieldsSpec", "(", "\n", "\t",
               "gmqb.AddField", "(", "\"a\"", ",", " ",
               "bson.D", "{", "{", "\"$foo\"", ",", " ",
               "gmqb.ExprToUpper", "(", "\"$a\"", ")", "}", "}",
               ")", ",", "\n", ")", ")">>
    /\ ~err.set

(***************************************************************************)
(* C14: a $project or $sort stage over a document of fields gives          *)
(* Project / Sort(bson.D{bson.E{key, value}, ...}) with one pair per       *)
(* field, in input order.  C14_Literal is the statement that every value   *)
(* is written by formatValue; C14_ProjectSort is what the code does: every *)
(* value is written by formatExpressionValue, so a single-key              *)
(* '$'-prefixed document is written as its expression translation.         *)
(***************************************************************************)
StageMethod(stageOp) == IF stageOp = "$sort" THEN "Sort" ELSE "Project"

\* the last stage is {stageOp: {...}} over one field or more
IsFieldsStage(a, stageOp) ==
    /\ Len(a.a) > 0
    /\ IsStage(LastStage(a), stageOp)
    /\ IsDoc(LastStage(a).d[1].v)
    /\ Len(LastStage(a).d[1].v.d) > 0
    /\ EarlierTranslate(a)

StageFields(a) == LastStage(a).d[1].v.d

\* the pairs, one per line, every value written by formatValue
RECURSIVE LiteralPairs(_)
LiteralPairs(elems) ==
    IF Len(elems) = 0 THEN <<>>
    ELSE <<"\n", "\t", "bson.E", "{", GoQuote(Head(elems).k), ",", " ">>
         \o formatValue(Head(elems).v) \o <<"}", ",">>
         \o LiteralPairs(Tail(elems))

\* the pairs, one per line, every value written by formatExpressionValue
RECURSIVE ExpressionPairs(_)
ExpressionPairs(elems) ==
    IF Len(elems) = 0 THEN <<>>
    ELSE <<"\n", "\t", "bson.E", "{", GoQuote(Head(elems).k), ",", " ">>
         \o formatExpressionValue(Head(elems).v) \o <<"}", ",">>
         \o ExpressionPairs(Tail(elems))

PairsText(stageOp, pairs) ==
    <<StageMethod(stageOp), "(", "bson.D", "{">> \o pairs \o <<"\n", "}", ")">>

C14_ProjectSort ==
    \A stageOp \in {"$project", "$sort"} :
        (PipelineCall /\ IsFieldsStage(input.val, stageOp))
        => EndsWith(raw, PairsText(stageOp, ExpressionPairs(StageFields(input.val))))

C14_Witness ==
    /\ PipelineCall
    /\ input.val = Arr(<<Doc(<<E("$sort", Doc(<<E("b", Int32(-1)),
                         E("a", Doc(<<E("$toUpper", Str("$a"))>>))>>))>>)>>)
    /\ raw = <<"gmqb.NewPipeline", "(", ")", ".", "\n",
               "Sort", "(", "bson.D", "{", "\n", "\t",
               "bson.E", "{", "\"b\"", ",", " ", "-1", "}", ",", "\n", "\t",
               "bson.E", "{", "\"a\"", ",", " ",
               "gmqb.ExprToUpper", "(", "\"$a\"", ")", "}", ",", "\n",
               "}", ")">>
    /\ ~err.set

C14_Literal ==
    \A stageOp \in {"$project", "$sort"} :
        (PipelineCall /\ IsFieldsStage(input.val, stageOp))
        => EndsWith(raw, PairsText(stageOp, LiteralPairs(StageFields(input.val))))

(***************************************************************************)
(* C15: in the code Generate returns for a $project stage, the pairs stand *)
(* in input order, a field holding a recognized single-key expression      *)
(* document is the builder call named after its operator, and a field      *)
(* holding a scalar is that scalar's literal.                              *)
(***************************************************************************)
\* {op: v} that a case of translateExpression's switch turns into a call
IsBuilderExpr(v) ==
    /\ IsExprDoc(v)
    /\ \/ v.d[1].k \in UnaryExprOps \cup AccumulatorOps
       \/ v.d[1].k \in BinaryExprOps /\ IsArr(v.d[1].v) /\ Len(v.d[1].v.a) = 2
       \/ v.d[1].k \in VariadicExprOps /\ IsArr(v.d[1].v)

IsScalar(v) == v.t \in {"string", "int32", "int64", "float64", "bool"}

\* the i-th bson.E{...} of the parsed Project(bson.D{...}) call
ProjectPair(node, i) == node.margs[1].elems[i]

C15_Pair(pair, e) ==
    /\ pair.n = "comp" /\ pair.ty = "bson.E" /\ Len(pair.elems) = 2
    /\ pair.elems[1] = [n |-> "tok", tok |-> GoQuote(e.k)]
    /\ IsBuilderExpr(e.v) =>
          /\ pair.elems[2].n = "call"
          /\ pair.elems[2].fn =
                "gmqb." \o (IF e.v.d[1].k \in AccumulatorOps THEN "Acc" ELSE "Expr")
                \o UpperFirst(e.v.d[1].k)
    /\ IsScalar(e.v) => pair.elems[2] = [n |-> "tok", tok |-> formatValue(e.v)[1]]

C15_Shape(node, fields) ==
    /\ node.n = "mcall" /\ node.m = "Project" /\ Len(node.margs) = 1
    /\ node.margs[1].n = "comp" /\ node.margs[1].ty = "bson.D"
    /\ Len(node.margs[1].elems) = Len(fields)
    /\ \A i \in 1..Len(fields) : C15_Pair(ProjectPair(node, i), fields[i])

\* every field value translates to text the formatter accepts
Formattable(fields) ==
    \A i \in 1..Len(fields) :
        ParseSource(formatExpressionValue(fields[i].v)).ok

C15_ProjectExpression ==
    (PipelineCall /\ IsFieldsStage(input.val, "$project"))
    => /\ Formattable(StageFields(input.val)) => ~err.set
       /\ ~err.set => C15_Shape(ParseSource(code).node, StageFields(input.val))

C15_Witness ==
    /\ PipelineCall
    /\ input.val = Arr(<<Doc(<<E("$project", Doc(<<E("b", Int32(-1)),
                         E("a", Doc(<<E("$toUpper", Str("$a"))>>))>>))>>)>>)
    /\ code = <<"gmqb.NewPipeline", "(", ")", ".", "\n",
                "Project", "(", "bson.D", "{", "\n",
                "bson.E", "{", "\"b\"", ",", "-1", "}", ",", "\n",
                "bson.E", "{", "\"a\"", ",",
                "gmqb.ExprToUpper", "(", "\"$a\"", ")", "}", ",", "\n",
                "}", ")">>
    /\ ~err.set

(***************************************************************************)
(* C16: a $limit or $skip stage over an int32, int64 or float64 value      *)
(* gives Limit(n) / Skip(n), n being the value as an integer: an integer   *)
(* unchanged, a float64 without its fractional part; no error.             *)
(***************************************************************************)
IsNumeric(v) == v.t \in {"int32", "int64", "float64"}

\* the value without its fractional part (truncation toward zero)
Truncated(v) == IF v.t = "float64" THEN v.ip ELSE v.n

NumericMethod(stageOp) == IF stageOp = "$limit" THEN "Limit" ELSE "Skip"

C16_Shape(stageOp, v) ==
    /\ ~err.set
    /\ EndsWith(raw, <<NumericMethod(stageOp), "(", ToString(Truncated(v)), ")">>)
    /\ ParseSource(code).node.m = NumericMethod(stageOp)
    /\ ParseSource(code).node.margs
          = <<[n |-> "tok", tok |-> ToString(Truncated(v))]>>

C16_LimitSkip ==
    \A stageOp \in {"$limit", "$skip"} :
        (PipelineCall /\ Len(input.val.a) > 0
            /\ IsStage(LastStage(input.val), stageOp)
            /\ IsNumeric(LastStage(input.val).d[1].v)
            /\ EarlierTranslate(input.val))
        => C16_Shape(stageOp, LastStage(input.val).d[1].v)

C16_Witness ==
    /\ PipelineCall
    /\ input.val = Arr(<<Doc(<<E("$limit", Int32(4))>>),
                         Doc(<<E("$skip", Float64(-2, 5))>>)>>)
    /\ code = <<"gmqb.NewPipeline", "(", ")", ".", "\n",
                "Limit", "(", "4", ")", ".", "\n", "Skip", "(", "-2", ")">>
    /\ ~err.set

(***************************************************************************)
(* C17: a binary fixed-arity expression operator over an array of exactly  *)
(* two elements gives a builder call with two arguments, in array order;   *)
(* over any other value it gives the raw pair bson.D{{op, value}} and no   *)
(* error.                                                                  *)
(***************************************************************************)
C17_Call(key, op, a) ==
    /\ EndsWith(raw, AddFieldsText(key,
            <<"gmqb.Expr" \o UpperFirst(op), "(">> \o formatValue(a[1])
            \o <<",", " ">> \o formatValue(a[2]) \o <<")">>))
    /\ ~err.set =>
          /\ AddFieldArg(ParseSource(code).node).n = "call"
          /\ AddFieldArg(ParseSource(code).node).args
                = <<ParseSource(formatValue(a[1])).node,
                    ParseSource(formatValue(a[2])).node>>

C17_Raw(key, op, val) ==
    /\ EndsWith(raw, AddFieldsText(key,
            <<"bson.D", "{", "{", GoQuote(op), ",", " ">>
            \o formatValue(val) \o <<"}", "}">>))
    /\ ~err.set => IsRawPairNode(AddFieldArg(ParseSource(code).node), op)

C17_Shape(key, op, val) ==
    /\ ~Failed
    /\ IF IsArr(val) /\ Len(val.a) = 2 THEN C17_Call(key, op, val.a)
       ELSE C17_Raw(key, op, val)

C17_Binary ==
    (PipelineCall /\ IsFieldStage(input.val, "$addFields")
        /\ IsExprDoc(FieldValue(input.val))
        /\ FieldValue(input.val).d[1].k \in BinaryExprOps)
    => C17_Shape(FieldKey(input.val), FieldValue(input.val).d[1].k,
                 FieldValue(input.val).d[1].v)

C17_Witness ==
    /\ PipelineCall
    /\ input.val = Arr(<<Doc(<<E("$addFields", Doc(<<E("a",
                         Doc(<<E("$subtract",
                               Arr(<<Doc(<<E("$toUpper", Str("$a"))>>),
                                     Int32(4)>>))>>))>>))>>)>>)
    /\ raw = <<"gmqb.NewPipeline", "(", ")", ".", "\n",
               "AddFields", "(", "gmqb.AddFieldsSpec", "(", "\n", "\t",
               "gmqb.AddField", "(", "\"a\"", ",", " ",
               "gmqb.ExprSubtract", "(",
               "bson.D", "{", "{", "\"$toUpper\"", ",", " ", "\"$a\"", "}", "}",
               ",", " ", "4", ")",
               ")", ",", "\n", ")", ")">>
    /\ ~err.set

(***************************************************************************)
(* C18: the argument of a unary or accumulator operator and every element  *)
(* of a variadic operator's array are written by formatExpressionValue: a  *)
(* single-key '$'-prefixed document becomes a builder call, at every       *)
(* nesting depth, any other argument a literal; a variadic call has one    *)
(* argument per array element, in array order.                             *)
(***************************************************************************)
\* the operators that take one argument ($count takes none)
OneArgOps == (UnaryExprOps \cup AccumulatorOps) \ {"$count"}

IsOneArgExpr(v) == IsExprDoc(v) /\ v.d[1].k \in OneArgOps
IsVariadicExpr(v) ==
    IsExprDoc(v) /\ v.d[1].k \in VariadicExprOps /\ IsArr(v.d[1].v)

\* the parsed text of val as formatExpressionValue has to write it
RECURSIVE Built(_, _)
Built(node, val) ==
    IF IsOneArgExpr(val)
    THEN /\ node.n = "call" /\ Len(node.args) = 1
         /\ Built(node.args[1], val.d[1].v)
    ELSE IF IsVariadicExpr(val)
    THEN /\ node.n = "call" /\ Len(node.args) = Len(val.d[1].v.a)
         /\ \A i \in 1..Len(node.args) : Built(node.args[i], val.d[1].v.a[i])
    ELSE IF IsExprDoc(val) THEN TRUE
    ELSE node = ParseSource(formatValue(val)).node

\* the arguments of val's call, each written by formatExpressionValue
ArgumentTexts(val) ==
    IF IsOneArgExpr(val) THEN <<formatExpressionValue(val.d[1].v)>>
    ELSE [i \in 1..Len(val.d[1].v.a) |-> formatExpressionValue(val.d[1].v.a[i])]

C18_Shape(key, val) ==
    /\ EndsWith(raw, AddFieldsText(key,
            <<"gmqb." \o ExprCase(val.d[1].k, val.d[1].v).fn, "(">>
            \o Join(ArgumentTexts(val), <<",", " ">>) \o <<")">>))
    /\ ~err.set => Built(AddFieldArg(ParseSource(code).node), val)

C18_Nested ==
    (PipelineCall /\ IsFieldStage(input.val, "$addFields")
        /\ (IsOneArgExpr(FieldValue(input.val))
            \/ IsVariadicExpr(FieldValue(input.val))))
    => C18_Shape(FieldKey(input.val), FieldValue(input.val))

C18_Witness ==
    /\ PipelineCall
    /\ input.val = Arr(<<Doc(<<E("$addFields", Doc(<<E("a",
                         Doc(<<E("$add",
                               Arr(<<Doc(<<E("$sum",
                                       Doc(<<E("$toUpper", Str("$a"))>>))>>),
                                     Int32(4)>>))>>))>>))>>)>>)
    /\ raw = <<"gmqb.NewPipeline", "(", ")", ".", "\n",
               "AddFields", "(", "gmqb.AddFieldsSpec", "(", "\n", "\t",
               "gmqb.AddField", "(", "\"a\"", ",", " ",
               "gmqb.ExprAdd", "(",
               "gmqb.AccSum", "(", "gmqb.ExprToUpper", "(", "\"$a\"", ")", ")",
               ",", " ", "4", ")",
               ")", ",", "\n", ")", ")">>
    /\ ~err.set

(***************************************************************************)
(* C19: the text formatValue writes passes the final formatting pass for   *)
(* every decoded value, null and the nil of an absent named sub-field      *)
(* included: a bare field {f: v}, translated to Eq(f, formatValue(v)), and *)
(* a structured expression over a document of sub-fields never end in a    *)
(* formatting error.                                                       *)
(***************************************************************************)
\* {f: v}: one field, no logical key, no operator document
IsBareField(d) ==
    /\ Len(d.d) = 1
    /\ d.d[1].k \notin LogicalKeys
    /\ ~HasOps(d.d[1].v)

\* {op: {...}}: a structured operator over a document of named sub-fields
IsStructuredExpr(v) ==
    /\ IsExprDoc(v)
    /\ v.d[1].k \in KnownExprOps
          \ (UnaryExprOps \cup AccumulatorOps \cup BinaryExprOps \cup VariadicExprOps)
    /\ IsDoc(v.d[1].v)

C19_ValueFormatter ==
    /\ (FilterCall /\ IsBareField(input.val)) => ~err.set
    /\ (PipelineCall /\ IsFieldStage(input.val, "$addFields")
            /\ IsStructuredExpr(FieldValue(input.val)))
       => ~err.set

(***************************************************************************)
(* C20: Generate returns a text together with an error only when the       *)
(* formatting pass fails, and the text is then the unformatted fragment;   *)
(* a parse error and a translation error come with the empty text; a       *)
(* success comes with no error.                                            *)
(***************************************************************************)
\* the text decoded to the kind of value its first character announces
Decoded == FilterCall \/ PipelineCall

\* what the translator returns for the decoded input
Translation ==
    IF input.text = "array" THEN translatePipeline(input.val)
    ELSE translateDoc(input.val)

C20_Outcome(r) ==
    IF r.err.set THEN code = <<>> /\ err = r.err
    ELSE IF FormatSource(r.code).err.set
    THEN err.set /\ code = r.code /\ code # <<>>
    ELSE ~err.set /\ code = FormatSource(r.code).code

C20_Returns ==
    Done => /\ ~Decoded => (err.set /\ code = <<>>)
            /\ Decoded => C20_Outcome(Translation)
            /\ (err.set /\ code # <<>>) =>
                  (Decoded /\ code = raw /\ FormatSource(raw).err.set)

C20_Witness ==
    /\ FilterCall
    /\ input.val = Doc(<<E("a", Null)>>)
    /\ code = <<"gmqb.Eq", "(", "\"a\"", ",", " ", "<nil>", ")">>
    /\ code = raw
    /\ err.set

(***************************************************************************)
(* Generate on a JSON text (translate_expr.go).  A text is the sequence of *)
(* its tokens, white space included; bson.UnmarshalExtJSON skips the white *)
(* space between tokens and builds the decoded value.                      *)
(***************************************************************************)
JsonSpace == {" ", "\n", "\t", "\r"}
JsonStrings == {"a", "b", "A", "$gt", "$limit", "$foo"}
JsonNumbers == 0..9
JsonQuote(s) == "\"" \o s \o "\""

IsStringToken(tok) == \E s \in JsonStrings : JsonQuote(s) = tok
IsNumberToken(tok) == \E n \in JsonNumbers : ToString(n) = tok
StringOf(tok) == CHOOSE s \in JsonStrings : JsonQuote(s) = tok
NumberOf(tok) == CHOOSE n \in JsonNumbers : ToString(n) = tok

BadJson == [ok |-> FALSE, val |-> Invalid, next |-> 0]
GoodJson(v, i) == [ok |-> TRUE, val |-> v, next |-> i]

RECURSIVE DecodeValue(_, _), DecodeMembers(_, _, _), DecodeItems(_, _, _)
\* after the member key: r is the decoded member value
MemberDecoded(t, key, r, acc) ==
    IF ~r.ok \/ r.next > Len(t) THEN BadJson
    ELSE IF t[r.next] = "," THEN DecodeMembers(t, r.next + 1, Append(acc, E(key, r.val)))
    ELSE IF t[r.next] = "}" THEN GoodJson(Doc(Append(acc, E(key, r.val))), r.next + 1)
    ELSE BadJson

DecodeMembers(t, i, acc) ==
    IF i + 2 > Len(t) \/ ~IsStringToken(t[i]) \/ t[i + 1] # ":" THEN BadJson
    ELSE MemberDecoded(t, StringOf(t[i]), DecodeValue(t, i + 2), acc)

\* after an array item: r is the decoded item
ItemDecoded(t, r, acc) ==
    IF ~r.ok \/ r.next > Len(t) THEN BadJson
    ELSE IF t[r.next] = "," THEN DecodeItems(t, r.next + 1, Append(acc, r.val))
    ELSE IF t[r.next] = "]" THEN GoodJson(Arr(Append(acc, r.val)), r.next + 1)
    ELSE BadJson

DecodeItems(t, i, acc) == ItemDecoded(t, DecodeValue(t, i), acc)

DecodeValue(t, i) ==
    IF i > Len(t) THEN BadJson
    ELSE IF t[i] = "{"
    THEN IF i < Len(t) /\ t[i + 1] = "}" THEN GoodJson(Doc(<<>>), i + 2)
         ELSE DecodeMembers(t, i + 1, <<>>)
    ELSE IF t[i] = "["
    THEN IF i < Len(t) /\ t[i + 1] = "]" THEN GoodJson(Arr(<<>>), i + 2)
         ELSE DecodeItems(t, i + 1, <<>>)
    ELSE IF t[i] = "null" THEN GoodJson(Null, i + 1)
    ELSE IF t[i] = "true" THEN GoodJson(Bool(TRUE), i + 1)
    ELSE IF t[i] = "false" THEN GoodJson(Bool(FALSE), i + 1)
    ELSE IF IsStringToken(t[i]) THEN GoodJson(Str(StringOf(t[i])), i + 1)
    ELSE IF IsNumberToken(t[i]) THEN GoodJson(Int32(NumberOf(t[i])), i + 1)
    ELSE BadJson

\* the whole text must be one value
WholeValue(t, r) == IF r.ok /\ r.next = Len(t) + 1 THEN r.val ELSE Invalid

IsJsonToken(tok) == tok \notin JsonSpace
WithoutSpace(text) == SelectSeq(text, IsJsonToken)

\* bson.UnmarshalExtJSON: the decoded value, or Invalid
UnmarshalExtJSON(text) == WholeValue(WithoutSpace(text), DecodeValue(WithoutSpace(text), 1))

\* strings.TrimSpace
RECURSIVE TrimLeft(_)
TrimLeft(text) ==
    IF Len(text) = 0 \/ text[1] \notin JsonSpace THEN text ELSE TrimLeft(Tail(text))

RECURSIVE TrimRight(_)
TrimRight(text) ==
    IF Len(text) = 0 \/ text[Len(text)] \notin JsonSpace THEN text
    ELSE TrimRight(SubSeq(text, 1, Len(text) - 1))

TrimSpace(text) == TrimRight(TrimLeft(text))

\* the result of a call: the Go pair (code, err)
GoResult(r) == [code |-> r.code, err |-> r.err]

\* a faulty Generate that builds its text in one package-level buffer it
\* never resets: a call returns its text behind what earlier calls left
GenerateSharedBuffer(str) ==
    IF observed = {}
    THEN IF Len(str) > 0 /\ str[1] = "["
         THEN GoResult(GeneratePipelineResult(PipelineInput(UnmarshalExtJSON(str))))
         ELSE GoResult(GenerateFilterResult(FilterInput(UnmarshalExtJSON(str))))
    ELSE [code |-> <<"gmqb.", "gmqb.">>, err |-> NilErr]

\* Generate after strings.TrimSpace: the text's first character decides
GenerateTrimmed(str) ==
    IF Len(str) > 0 /\ str[1] = "["
    THEN GoResult(GeneratePipelineResult(PipelineInput(UnmarshalExtJSON(str))))
    ELSE GoResult(GenerateFilterResult(FilterInput(UnmarshalExtJSON(str))))

Generate(jsonStr) == GenerateTrimmed(TrimSpace(jsonStr))

(***************************************************************************)
(* The texts handed to Generate by concurrent callers: each value in its   *)
(* compact and in its pretty-printed form, and a text that is no JSON.     *)
(***************************************************************************)
MaxGoroutines == 2
Callers == 1..MaxGoroutines

RECURSIVE JsonText(_, _)
\* the separator after "{", "[" and ",", and the one after ":"
LineSep(pretty) == IF pretty THEN <<"\n", " ">> ELSE <<>>
ColonSep(pretty) == IF pretty THEN <<" ">> ELSE <<>>
LastSep(pretty) == IF pretty THEN <<"\n">> ELSE <<>>

MemberText(e, pretty) ==
    <<JsonQuote(e.k), ":">> \o ColonSep(pretty) \o JsonText(e.v, pretty)

Bracketed(open, parts, close, pretty) ==
    IF Len(parts) = 0 THEN <<open, close>>
    ELSE <<open>> \o LineSep(pretty)
         \o Join(parts, <<",">> \o LineSep(pretty))
         \o LastSep(pretty) \o <<close>>

JsonText(v, pretty) ==
    CASE v.t = "null" -> <<"null">>
      [] v.t = "bool" -> IF v.b THEN <<"true">> ELSE <<"false">>
      [] v.t = "int32" -> <<ToString(v.n)>>
      [] v.t = "string" -> <<JsonQuote(v.s)>>
      [] v.t = "array" ->
           Bracketed("[", [i \in 1..Len(v.a) |-> JsonText(v.a[i], pretty)], "]", pretty)
      [] v.t = "doc" ->
           Bracketed("{", [i \in 1..Len(v.d) |-> MemberText(v.d[i], pretty)], "}", pretty)

CallValues ==
    {Doc(<<E("a", Doc(<<E("$gt", Int32(4))>>)), E("b", Str("A"))>>),
     Arr(<<Doc(<<E("$limit", Int32(4))>>)>>),
     Doc(<<E("a", Null)>>)}

Compact(v) == JsonText(v, FALSE)
\* indented, and with white space around the whole text
Pretty(v) == <<" ", "\n">> \o JsonText(v, TRUE) \o <<"\n">>

CallTexts ==
    {Compact(v) : v \in CallValues} \cup {Pretty(v) : v \in CallValues}
    \cup {<<"{", JsonQuote("a"), ":">>}

(***************************************************************************)
(* Goroutines calling Generate: a call starts with its text and returns    *)
(* the pair Generate computes.  observed keeps, for each decoded value,    *)
(* the first result returned for it.                                       *)
(***************************************************************************)
NoCall == [pc |-> "idle", text |-> <<>>, res |-> [code |-> <<>>, err |-> NilErr]]

InitCallers ==
    /\ NoGenerate /\ NoBuilders /\ NoCollection /\ NoField
    /\ call = [g \in Callers |-> NoCall]
    /\ observed = {}

\* goroutine g calls Generate(t)
Calling(g, t) ==
    /\ call[g].pc # "running"
    /\ call' = [call EXCEPT ![g] = [pc |-> "running", text |-> t, res |-> NoCall.res]]
    /\ UNCHANGED <<genVars, observed, builderVars, crudVars, fieldVars>>

Observe(v, r) ==
    IF v = Invalid \/ \E o \in observed : o.val = v THEN observed
    ELSE observed \cup {[val |-> v, res |-> r]}

Returned(g, r) ==
    /\ call' = [call EXCEPT ![g].pc = "done", ![g].res = r]
    /\ observed' = Observe(UnmarshalExtJSON(call[g].text), r)

\* goroutine g's call returns
Returning(g) ==
    /\ call[g].pc = "running"
    /\ Returned(g, Generate(call[g].text))
    /\ UNCHANGED <<genVars, builderVars, crudVars, fieldVars>>

NextCallers ==
    \/ \E g \in Callers, t \in CallTexts : Calling(g, t)
    \/ \E g \in Callers : Returning(g)

SpecCallers == InitCallers /\ [][NextCallers]_vars

(***************************************************************************)
(* C21  Generate is deterministic and stateless: every returned call on a  *)
(* text that decodes to a value returns, byte for byte, the pair the first *)
(* call on that value returned, whatever form the text has and whatever    *)
(* calls ran before or run beside it; and a returned call's result is no   *)
(* more changed by what other goroutines do.                               *)
(***************************************************************************)
C21_SameResult ==
    \A g \in Callers :
        (call[g].pc = "done" /\ UnmarshalExtJSON(call[g].text) # Invalid) =>
            \E o \in observed :
                /\ o.val = UnmarshalExtJSON(call[g].text)
                /\ o.res = call[g].res

NilSlice == [t |-> "slice", arr |-> 0, len |-> 0]
Slice(a, n) == [t |-> "slice", arr |-> a, len |-> n]
ZeroCell == [k |-> "", v |-> Null]

Cap(h, s) == IF s.arr = 0 THEN 0 ELSE Len(h[s.arr])
\* the elements seen through the slice
Elements(h, s) == IF s.arr = 0 THEN <<>> ELSE SubSeq(h[s.arr], 1, s.len)

\* seq with its i-th element replaced
ReplaceAt(seq, i, x) == SubSeq(seq, 1, i - 1) \o <<x>> \o SubSeq(seq, i + 1, Len(seq))

RECURSIVE Zeros(_)
Zeros(c) == IF c = 0 THEN <<>> ELSE Append(Zeros(c - 1), ZeroCell)

\* make([]T, n, c)
Make(h, n, c) == [heap |-> Append(h, Zeros(c)), slice |-> Slice(Len(h) + 1, n)]

\* a composite literal []T{cell}
Literal(h, cell) == [heap |-> Append(h, <<cell>>), slice |-> Slice(Len(h) + 1, 1)]

\* copy(dst, src), dst made with src's length
CopyInto(m, h, src) ==
    [heap |-> ReplaceAt(m.heap, m.slice.arr,
                        Elements(h, src)
                        \o SubSeq(m.heap[m.slice.arr], src.len + 1, Len(m.heap[m.slice.arr]))),
     slice |-> m.slice]

\* a faulty copy step: no new array is made, the new slice is the old one
MakeCopyShares(h, src, extra) == [heap |-> h, slice |-> src]

\* newD := make(T, len(src), len(src)+extra); copy(newD, src)
MakeCopy(h, src, extra) == CopyInto(Make(h, src.len, src.len + extra), h, src)

\* the capacity append gives a full slice it must grow by one element
GrowCap(c) == IF c = 0 THEN 1 ELSE 2 * c

Store(m, i, cell) ==
    [heap |-> ReplaceAt(m.heap, m.slice.arr, ReplaceAt(m.heap[m.slice.arr], i, cell)),
     slice |-> Slice(m.slice.arr, i)]

\* append(s, cell): in place when the capacity allows, else in a grown copy
GoAppend(h, s, cell) ==
    IF s.len < Cap(h, s)
    THEN Store([heap |-> h, slice |-> s], s.len + 1, cell)
    ELSE Store(CopyInto(Make(h, s.len, GrowCap(Cap(h, s))), h, s), s.len + 1, cell)

(***************************************************************************)
(* The builders (filter.go, update.go, pipeline.go).  A builder value is   *)
(* its kind and its slice: Filter.d, Updater.ops or Pipeline.stages.       *)
(***************************************************************************)
MaxBuilders == 4
Kinds == {"Filter", "Updater", "Pipeline"}
Goroutines == 1..MaxGoroutines

\* the chaining calls the goroutines make
FilterCalls == {[m |-> "Eq", field |-> "a", value |-> Int32(1)],
                [m |-> "Gt", field |-> "b", value |-> Int32(2)]}
PipelineCalls == {[m |-> "Limit", field |-> "", value |-> Int64(4)],
                  [m |-> "Skip", field |-> "", value |-> Int64(2)]}
UpdaterCalls == {[m |-> "Set", field |-> "a", value |-> Int32(1)],
                 [m |-> "Set", field |-> "b", value |-> Int32(2)],
                 [m |-> "Inc", field |-> "a", value |-> Int32(1)],
                 [m |-> "Push", field |-> "b", value |-> Str("A")]}
CallsOf(kind) ==
    CASE kind = "Filter" -> FilterCalls
      [] kind = "Pipeline" -> PipelineCalls
      [] kind = "Updater" -> UpdaterCalls

\* the operator a Filter method writes under the field
FilterOperator(m) == IF m = "Eq" THEN "$eq" ELSE "$gt"
\* the stage a Pipeline method adds
StageName(m) == IF m = "Limit" THEN "$limit" ELSE "$skip"
\* the operator an Updater method passes to addOp
UpdateOperator(m) ==
    CASE m = "Set" -> "$set"
      [] m = "Inc" -> "$inc"
      [] m = "Push" -> "$push"

\* the element a Filter method hands to Filter.append, the stage document
\* Pipeline.addStage appends
NewElement(kind, c) ==
    IF kind = "Filter" THEN E(c.field, Doc(<<E(FilterOperator(c.m), c.value)>>))
    ELSE E(StageName(c.m), c.value)

\* a faulty search whose loop starts behind the first entry
FindOpSkipsFirst(cells, op) ==
    IF \E i \in 2..Len(cells) : cells[i].k = op
    THEN CHOOSE i \in 2..Len(cells) :
            cells[i].k = op /\ \A j \in 2..(i - 1) : cells[j].k # op
    ELSE 0

\* for i, e := range newOps { if e.Key == op ...: the first index, or 0
FindOp(cells, op) ==
    IF \E i \in 1..Len(cells) : cells[i].k = op
    THEN CHOOSE i \in 1..Len(cells) :
            cells[i].k = op /\ \A j \in 1..(i - 1) : cells[j].k # op
    ELSE 0

\* newOps[i] = bson.E{Key: op, Value: merged}
SetOp(m, newOps, i, op) ==
    [heap |-> ReplaceAt(m.heap, newOps.arr,
                        ReplaceAt(m.heap[newOps.arr], i, [k |-> op, v |-> m.slice])),
     slice |-> newOps]

\* the operator is there: its sub-document is copied and the field appended
MergeOp(h, newOps, i, op, fld, value) ==
    SetOp(GoAppend(MakeCopy(h, h[newOps.arr][i].v, 1).heap,
                   MakeCopy(h, h[newOps.arr][i].v, 1).slice,
                   E(fld, value)),
          newOps, i, op)

\* the operator is new: append(newOps, bson.E{op, bson.D{{field, value}}})
AppendOp(lit, newOps, op) == GoAppend(lit.heap, newOps, [k |-> op, v |-> lit.slice])

\* Updater.addOp after the copy of u.ops
AddOpTo(h, newOps, op, fld, value) ==
    IF FindOp(Elements(h, newOps), op) > 0
    THEN MergeOp(h, newOps, FindOp(Elements(h, newOps), op), op, fld, value)
    ELSE AppendOp(Literal(h, E(fld, value)), newOps, op)

\* the first statements of Filter.append, Pipeline.addStage, Updater.addOp
CopyOf(h, b) == MakeCopy(h, b.d, IF b.kind = "Updater" THEN 0 ELSE 1)

\* their remaining statements, on the copy
Completed(h, kind, newD, c) ==
    IF kind = "Updater" THEN AddOpTo(h, newD, UpdateOperator(c.m), c.field, c.value)
    ELSE GoAppend(h, newD, NewElement(kind, c))

RECURSIVE SubDocuments(_, _)
SubDocuments(h, cells) ==
    IF Len(cells) = 0 THEN <<>>
    ELSE <<[k |-> cells[1].k, v |-> Elements(h, cells[1].v)]>>
         \o SubDocuments(h, Tail(cells))

\* what BsonD() shows: the elements, an operator's sub-document read too
Content(h, b) ==
    IF b.kind = "Updater"
    THEN SubDocuments(h, Elements(h, b.d))
    ELSE Elements(h, b.d)

NoTask == [pc |-> "idle", base |-> 0, by |-> [m |-> "", field |-> "", value |-> Null],
           newD |-> NilSlice]

\* the bases: NewFilter(), NewUpdate(), NewPipeline(), and Raw(d) of a
\* slice d that has room behind its one element
InitBuilders ==
    /\ NoGenerate /\ NoCallers /\ NoCollection /\ NoField
    /\ \/ \E k \in Kinds :
            /\ heap = <<>>
            /\ builders = <<[kind |-> k, d |-> NilSlice]>>
            /\ derived = <<[from |-> 0, by |-> NoTask.by, seen |-> <<>>]>>
       \/ /\ heap = <<<<E("b", Doc(<<E("$gt", Int32(2))>>)), ZeroCell>>>>
          /\ builders = <<[kind |-> "Filter", d |-> Slice(1, 1)]>>
          /\ derived = <<[from |-> 0, by |-> NoTask.by,
                          seen |-> <<E("b", Doc(<<E("$gt", Int32(2))>>))>>]>>
    /\ task = [g \in Goroutines |-> NoTask]

InFlight == Cardinality({g \in Goroutines : task[g].pc # "idle"})

Copied(g, i, c, m) ==
    /\ heap' = m.heap
    /\ task' = [task EXCEPT ![g] = [pc |-> "copied", base |-> i, by |-> c, newD |-> m.slice]]

\* goroutine g calls builders[i].m(...): the method copies the slice
BeginChain(g, i, c) ==
    /\ task[g].pc = "idle"
    /\ Len(builders) + InFlight < MaxBuilders
    /\ Copied(g, i, c, CopyOf(heap, builders[i]))
    /\ UNCHANGED <<genVars, callVars, builders, derived, crudVars, fieldVars>>

Made(g, kind, m) ==
    /\ heap' = m.heap
    /\ builders' = Append(builders, [kind |-> kind, d |-> m.slice])
    /\ derived' = Append(derived, [from |-> task[g].base, by |-> task[g].by,
                                   seen |-> Content(m.heap, [kind |-> kind, d |-> m.slice])])
    /\ task' = [task EXCEPT ![g] = NoTask]

\* the method adds its element to the copy and returns the new builder
ReturnChain(g) ==
    /\ task[g].pc = "copied"
    /\ Made(g, builders[task[g].base].kind,
            Completed(heap, builders[task[g].base].kind, task[g].newD, task[g].by))
    /\ UNCHANGED <<genVars, callVars, crudVars, fieldVars>>

NextBuilders ==
    \/ \E g \in Goroutines, i \in 1..Len(builders) :
          \E c \in CallsOf(builders[i].kind) : BeginChain(g, i, c)
    \/ \E g \in Goroutines : ReturnChain(g)

SpecBuilders == InitBuilders /\ [][NextBuilders]_vars

(***************************************************************************)
(* C22  Builder immutability: whatever chaining calls were made since, by  *)
(* whichever goroutine, every builder shows what it showed when it was     *)
(* returned; a derived builder shows its base's elements and the call's    *)
(* addition, through a slice of its own.                                   *)
(***************************************************************************)
BuilderIds == 1..Len(builders)
Shown(i) == Content(heap, builders[i])
IsDerived(i) == derived[i].from > 0
BaseOf(i) == derived[i].from

\* the derived builder extends what its base showed
Extends(i) ==
    IF builders[i].kind = "Updater"
    THEN /\ Len(Shown(i)) >= Len(derived[BaseOf(i)].seen)
         /\ \E j \in 1..Len(Shown(i)) :
               /\ Shown(i)[j].k = UpdateOperator(derived[i].by.m)
               /\ Shown(i)[j].v[Len(Shown(i)[j].v)] = E(derived[i].by.field, derived[i].by.value)
    ELSE Shown(i) = Append(derived[BaseOf(i)].seen, NewElement(builders[i].kind, derived[i].by))

C22_Immutable ==
    \A i \in BuilderIds :
        /\ Shown(i) = derived[i].seen
        /\ IsDerived(i) =>
              /\ builders[i].kind = builders[BaseOf(i)].kind
              /\ builders[i].d.arr # builders[BaseOf(i)].d.arr
              /\ Extends(i)

\* a goroutine is inside a chaining call on a derived builder from which
\* another goroutine's call has returned meanwhile
C22_Witness ==
    \E g \in Goroutines, i \in BuilderIds :
        /\ task[g].pc = "copied"
        /\ IsDerived(i) /\ BaseOf(i) = task[g].base
        /\ IsDerived(BaseOf(i))
        /\ Shown(BaseOf(i)) # <<>>
        /\ Shown(i) # Shown(BaseOf(i))
        /\ Elements(heap, task[g].newD) = Elements(heap, builders[task[g].base].d)

(***************************************************************************)
(* C23  Updater merge invariant: in every Updater made from NewUpdate() by *)
(* a sequence of methods, each operator key occurs once, the keys stand in *)
(* the order in which the methods first used them, and an operator's       *)
(* sub-document lists the fields of the calls for that operator, in call   *)
(* order.                                                                  *)
(***************************************************************************)
\* the chaining calls that led from the base to builder i
RECURSIVE Trace(_)
Trace(i) == IF derived[i].from = 0 THEN <<>> ELSE Append(Trace(derived[i].from), derived[i].by)

IsUpdater(i) == builders[i].kind = "Updater"

\* the position of the first call of the trace that uses the operator
FirstUse(t, op) ==
    CHOOSE p \in 1..Len(t) :
        UpdateOperator(t[p].m) = op /\ \A q \in 1..(p - 1) : UpdateOperator(t[q].m) # op

\* the fields the calls for the operator set, in call order
RECURSIVE FieldsOf(_, _)
FieldsOf(t, op) ==
    IF Len(t) = 0 THEN <<>>
    ELSE (IF UpdateOperator(t[1].m) = op THEN <<E(t[1].field, t[1].value)>> ELSE <<>>)
         \o FieldsOf(Tail(t), op)

C23_Merged(doc, t) ==
    /\ \A j \in 1..Len(doc), k \in 1..Len(doc) : doc[j].k = doc[k].k => j = k
    /\ {doc[j].k : j \in 1..Len(doc)} = {UpdateOperator(t[p].m) : p \in 1..Len(t)}
    /\ \A j \in 1..Len(doc), k \in 1..Len(doc) :
          j < k => FirstUse(t, doc[j].k) < FirstUse(t, doc[k].k)
    /\ \A j \in 1..Len(doc) : doc[j].v = FieldsOf(t, doc[j].k)

C23_MergeInvariant == \A i \in BuilderIds : IsUpdater(i) => C23_Merged(Shown(i), Trace(i))

\* NewUpdate().Set("a", 1).Inc("a", 1).Set("b", 2)
C23_Witness ==
    \E i \in BuilderIds :
        /\ IsUpdater(i)
        /\ Len(Trace(i)) = 3
        /\ Trace(i)[1].m = "Set" /\ Trace(i)[2].m = "Inc" /\ Trace(i)[3].m = "Set"
        /\ Shown(i) = <<[k |-> "$set", v |-> <<E("a", Int32(1)), E("b", Int32(2))>>],
                        [k |-> "$inc", v |-> <<E("a", Int32(1))>>]>>

(***************************************************************************)
(* The CRUD wrapper (collection.go): Collection[T] holds the driver's      *)
(* collection; driver lists the calls that reached it.  A wrapper call     *)
(* returns the driver's result or an error of its own.                     *)
(***************************************************************************)
MaxCalls == 2

\* the sentinels of errors.go
ErrEmptyFilter == "gmqb: empty filter"
ErrEmptyUpdate == "gmqb: empty update document"
ErrEmptyPipeline == "gmqb: empty pipeline"

NoError == [set |-> FALSE, wraps |-> "", msg |-> ""]
\* fmt.Errorf("%w: <name> requires a non-empty <what>", sentinel)
Wrapped(sentinel, name, what) ==
    [set |-> TRUE, wraps |-> sentinel,
     msg |-> sentinel \o ": " \o name \o " requires a non-empty " \o what]
\* what the driver may return: nothing wrong, or an error of its own
DriverErrors == {NoError, [set |-> TRUE, wraps |-> "", msg |-> "driver error"]}

\* Filter.IsEmpty, Updater.IsEmpty, Pipeline.IsEmpty: len(...) == 0
IsEmpty(d) == Len(d) = 0

\* the builders handed to the wrapper, by what BsonD() shows
FilterArgs == {<<>>, <<E("a", Doc(<<E("$eq", Int32(1))>>))>>}
UpdateArgs == {<<>>, <<[k |-> "$set", v |-> <<E("a", Int32(1))>>]>>}
PipelineArgs == {<<>>, <<E("$limit", Int64(4))>>}
NoArg == <<>>

\* faulty guards of UpdateOne and UpdateMany: the update is looked at first
UpdateGuardUpdateFirst(name, filter, update) ==
    IF IsEmpty(update) THEN Wrapped(ErrEmptyUpdate, name, "update")
    ELSE IF IsEmpty(filter) THEN Wrapped(ErrEmptyFilter, name, "filter")
    ELSE NoError

\* the guards of UpdateOne and UpdateMany
UpdateGuard(name, filter, update) ==
    IF IsEmpty(filter) THEN Wrapped(ErrEmptyFilter, name, "filter")
    ELSE IF IsEmpty(update) THEN Wrapped(ErrEmptyUpdate, name, "update")
    ELSE NoError

\* the guard of DeleteOne and DeleteMany
DeleteGuard(name, filter) ==
    IF IsEmpty(filter) THEN Wrapped(ErrEmptyFilter, name, "filter") ELSE NoError

\* the guard of Aggregate
AggregateGuard(pipeline) ==
    IF IsEmpty(pipeline) THEN Wrapped(ErrEmptyPipeline, "Aggregate", "pipeline")
    ELSE NoError

InitCollection ==
    /\ NoGenerate /\ NoCallers /\ NoBuilders /\ NoField
    /\ crud = [n |-> 0, op |-> "", filter |-> NoArg, update |-> NoArg,
               pipeline |-> NoArg, err |-> NoError]
    /\ driver = <<>>

Called(name, f, u, p, e) ==
    crud' = [n |-> crud.n + 1, op |-> name, filter |-> f, update |-> u,
             pipeline |-> p, err |-> e]

\* return nil, err: the driver is not called
Rejected(name, f, u, p, e) ==
    /\ Called(name, f, u, p, e)
    /\ UNCHANGED driver

\* return c.coll.<name>(ctx, ...): the driver's answer is the wrapper's
Forwarded(name, f, u, p) ==
    /\ driver' = Append(driver, [m |-> name, filter |-> f, update |-> u, pipeline |-> p])
    /\ \E e \in DriverErrors : Called(name, f, u, p, e)

Guarded(name, f, u, p, e) ==
    /\ crud.n < MaxCalls
    /\ IF e.set THEN Rejected(name, f, u, p, e) ELSE Forwarded(name, f, u, p)
    /\ UNCHANGED <<genVars, callVars, builderVars, fieldVars>>

UpdateOne(f, u) == Guarded("UpdateOne", f, u, NoArg, UpdateGuard("UpdateOne", f, u))
UpdateMany(f, u) == Guarded("UpdateMany", f, u, NoArg, UpdateGuard("UpdateMany", f, u))
DeleteOne(f) == Guarded("DeleteOne", f, NoArg, NoArg, DeleteGuard("DeleteOne", f))
DeleteMany(f) == Guarded("DeleteMany", f, NoArg, NoArg, DeleteGuard("DeleteMany", f))
Aggregate(p) == Guarded("Aggregate", NoArg, NoArg, p, AggregateGuard(p))
\* CountDocuments has no guard
CountDocuments(f) == Guarded("CountDocuments", f, NoArg, NoArg, NoError)

NextCollection ==
    \/ \E f \in FilterArgs, u \in UpdateArgs : UpdateOne(f, u)
    \/ \E f \in FilterArgs, u \in UpdateArgs : UpdateMany(f, u)
    \/ \E f \in FilterArgs : DeleteOne(f)
    \/ \E f \in FilterArgs : DeleteMany(f)
    \/ \E p \in PipelineArgs : Aggregate(p)
    \/ \E f \in FilterArgs : CountDocuments(f)

SpecCollection == InitCollection /\ [][NextCollection]_vars

(***************************************************************************)
(* C24  Empty-argument guards: UpdateOne, UpdateMany, DeleteOne and        *)
(* DeleteMany with an empty filter return an error wrapping                *)
(* ErrEmptyFilter; UpdateOne and UpdateMany with a filter but an empty     *)
(* update return one wrapping ErrEmptyUpdate; Aggregate with an empty      *)
(* pipeline returns one wrapping ErrEmptyPipeline; and no such call ever   *)
(* reached the driver collection.                                          *)
(***************************************************************************)
FilterMethods == {"UpdateOne", "UpdateMany", "DeleteOne", "DeleteMany"}
UpdateMethods == {"UpdateOne", "UpdateMany"}

\* the sentinel the arguments of a call ask for, "" when none
Expected(m, f, u, p) ==
    IF m \in FilterMethods /\ IsEmpty(f) THEN ErrEmptyFilter
    ELSE IF m \in UpdateMethods /\ IsEmpty(u) THEN ErrEmptyUpdate
    ELSE IF m = "Aggregate" /\ IsEmpty(p) THEN ErrEmptyPipeline
    ELSE ""

C24_Guards ==
    /\ crud.n > 0 =>
          (Expected(crud.op, crud.filter, crud.update, crud.pipeline) # "" =>
              /\ crud.err.set
              /\ crud.err.wraps = Expected(crud.op, crud.filter, crud.update, crud.pipeline))
    /\ \A i \in 1..Len(driver) :
          Expected(driver[i].m, driver[i].filter, driver[i].update, driver[i].pipeline) = ""

\* after a call that reached the driver, UpdateMany is called with an empty
\* filter and an empty update: ErrEmptyFilter, and the driver saw nothing new
C24_Witness ==
    /\ crud.n = 2
    /\ crud.op = "UpdateMany" /\ IsEmpty(crud.filter) /\ IsEmpty(crud.update)
    /\ crud.err.wraps = ErrEmptyFilter
    /\ Len(driver) = 1

(***************************************************************************)
(* Field[T] (schema.go): the struct types by their fields, the reflection  *)
(* walk buildFieldMap, and the package-level cache schemaCache, a sync.Map *)
(* whose Load and Store are atomic.                                        *)
(***************************************************************************)
\* a struct field: its Go name, the name in its bson tag, the struct type
\* of the field ("" when it is no struct), and whether it is exported
StructField(name, tag, ty, exported) ==
    [name |-> name, tag |-> tag, ty |-> ty, exported |-> exported]

StructTypes == {"testUser", "testAddress"}
FieldsOfType(t) ==
    IF t = "testUser"
    THEN <<StructField("Name", "name", "", TRUE),
           StructField("Age", "", "", TRUE),
           StructField("Secret", "-", "", TRUE),
           StructField("hidden", "", "", FALSE),
           StructField("Address", "address", "testAddress", TRUE)>>
    ELSE <<StructField("City", "city", "", TRUE),
           StructField("Zip", "zip_code", "", TRUE)>>

\* strings.ToLower of the field names
ToLower(name) ==
    CASE name = "Name" -> "name"
      [] name = "Age" -> "age"
      [] name = "Secret" -> "secret"
      [] name = "Address" -> "address"
      [] name = "City" -> "city"
      [] name = "Zip" -> "zip"
      [] OTHER -> name

resolveBsonTag(sf) == IF sf.tag = "" THEN ToLower(sf.name) ELSE sf.tag

Dotted(prefix, name) == IF prefix # "" THEN prefix \o "." \o name ELSE name

\* out[goPath] = bsonPath
Put(out, goPath, bsonPath) ==
    {p \in out : p.go # goPath} \cup {[go |-> goPath, bson |-> bsonPath]}

RECURSIVE buildFieldMap(_, _, _, _), buildFields(_, _, _, _)
\* one round of the loop over the struct's fields
buildField(sf, rest, goPrefix, bsonPrefix, out) ==
    IF ~sf.exported \/ resolveBsonTag(sf) = "-"
    THEN buildFields(rest, goPrefix, bsonPrefix, out)
    ELSE IF sf.ty # ""
    THEN buildFields(rest, goPrefix, bsonPrefix,
            buildFieldMap(sf.ty, Dotted(goPrefix, sf.name),
                          Dotted(bsonPrefix, resolveBsonTag(sf)),
                          Put(out, Dotted(goPrefix, sf.name),
                              Dotted(bsonPrefix, resolveBsonTag(sf)))))
    ELSE buildFields(rest, goPrefix, bsonPrefix,
            Put(out, Dotted(goPrefix, sf.name), Dotted(bsonPrefix, resolveBsonTag(sf))))

buildFields(fields, goPrefix, bsonPrefix, out) ==
    IF Len(fields) = 0 THEN out
    ELSE buildField(fields[1], Tail(fields), goPrefix, bsonPrefix, out)

buildFieldMap(t, goPrefix, bsonPrefix, out) ==
    buildFields(FieldsOfType(t), goPrefix, bsonPrefix, out)

\* fields[fieldPath]
HasPath(fields, fieldPath) == \E p \in fields : p.go = fieldPath
PathOf(fields, fieldPath) == (CHOOSE p \in fields : p.go = fieldPath).bson

\* the calls the goroutines make
FieldPaths == {"Name", "Address.Zip", "Missing"}
NotCached == [cached |-> FALSE, fields |-> {}]
NotResolving ==
    [pc |-> "idle", n |-> 0, ty |-> "", path |-> "", fields |-> {}, res |-> ""]

InitField ==
    /\ NoGenerate /\ NoCallers /\ NoBuilders /\ NoCollection
    /\ schemaCache = [t \in StructTypes |-> NotCached]
    /\ resolving = [g \in Goroutines |-> NotResolving]
    /\ builds = [t \in StructTypes |-> 0]

OthersIdle == UNCHANGED <<genVars, callVars, builderVars, crudVars>>

\* goroutine g calls Field[t](fieldPath)
Field(g, t, fieldPath) ==
    /\ resolving[g].pc \in {"idle", "done", "panicked"}
    /\ resolving[g].n < MaxCalls
    /\ resolving' = [resolving EXCEPT ![g] =
          [pc |-> "load", n |-> resolving[g].n + 1, ty |-> t, path |-> fieldPath,
           fields |-> {}, res |-> ""]]
    /\ UNCHANGED <<schemaCache, builds>>
    /\ OthersIdle

\* getOrBuildFieldMap: schemaCache.Load(t) finds the map
LoadHit(g) ==
    /\ resolving[g].pc = "load"
    /\ schemaCache[resolving[g].ty].cached
    /\ resolving' = [resolving EXCEPT ![g].pc = "lookup",
                                      ![g].fields = schemaCache[resolving[g].ty].fields]
    /\ UNCHANGED <<schemaCache, builds>>
    /\ OthersIdle

\* getOrBuildFieldMap: schemaCache.Load(t) finds nothing
LoadMiss(g) ==
    /\ resolving[g].pc = "load"
    /\ ~schemaCache[resolving[g].ty].cached
    /\ resolving' = [resolving EXCEPT ![g].pc = "build"]
    /\ UNCHANGED <<schemaCache, builds>>
    /\ OthersIdle

\* fields := make(map[string]string); buildFieldMap(t, "", "", fields)
Build(g) ==
    /\ resolving[g].pc = "build"
    /\ resolving' = [resolving EXCEPT ![g].pc = "store",
                                      ![g].fields = buildFieldMap(resolving[g].ty, "", "", {})]
    /\ builds' = [builds EXCEPT ![resolving[g].ty] = @ + 1]
    /\ UNCHANGED schemaCache
    /\ OthersIdle

\* schemaCache.Store(t, fields)
StoreMap(g) ==
    /\ resolving[g].pc = "store"
    /\ schemaCache' = [schemaCache EXCEPT ![resolving[g].ty] =
                          [cached |-> TRUE, fields |-> resolving[g].fields]]
    /\ resolving' = [resolving EXCEPT ![g].pc = "lookup"]
    /\ UNCHANGED builds
    /\ OthersIdle

\* bsonPath, ok := fields[fieldPath]: Field returns the path
ReturnPath(g) ==
    /\ resolving[g].pc = "lookup"
    /\ HasPath(resolving[g].fields, resolving[g].path)
    /\ resolving' = [resolving EXCEPT ![g].pc = "done",
                                      ![g].res = PathOf(resolving[g].fields, resolving[g].path)]
    /\ UNCHANGED <<schemaCache, builds>>
    /\ OthersIdle

\* the path is not in the map: Field panics
Panic(g) ==
    /\ resolving[g].pc = "lookup"
    /\ ~HasPath(resolving[g].fields, resolving[g].path)
    /\ resolving' = [resolving EXCEPT ![g].pc = "panicked"]
    /\ UNCHANGED <<schemaCache, builds>>
    /\ OthersIdle

NextField ==
    \/ \E g \in Goroutines, t \in StructTypes, fp \in FieldPaths : Field(g, t, fp)
    \/ \E g \in Goroutines :
          LoadHit(g) \/ LoadMiss(g) \/ Build(g) \/ StoreMap(g) \/ ReturnPath(g) \/ Panic(g)

SpecField == InitField /\ [][NextField]_vars

(***************************************************************************)
(* C25  Field[T] caches the field map per struct type: buildFieldMap runs  *)
(* at most once per type, however many goroutines call Field, and every    *)
(* call returns the same BSON path for the same field path.                *)
(***************************************************************************)
C25_SamePath ==
    \A g \in Goroutines, h \in Goroutines :
        (/\ resolving[g].pc = "done" /\ resolving[h].pc = "done"
         /\ resolving[g].ty = resolving[h].ty
         /\ resolving[g].path = resolving[h].path) =>
            resolving[g].res = resolving[h].res

C25_BuildOnce == \A t \in StructTypes : builds[t] <= 1

C25_Cached == C25_BuildOnce /\ C25_SamePath

(***************************************************************************)
(* The expression and accumulator constructors of package gmqb             *)
(* (expr_core.go, expr_data.go, expr_acc.go): each by its name, the number *)
(* of its fixed parameters and whether a variadic parameter follows them.  *)
(***************************************************************************)
Sig(name, fixed, variadic) == [name |-> name, fixed |-> fixed, variadic |-> variadic]

CoreConstructors ==
    {Sig("ExprAdd", 0, TRUE),
     Sig("ExprSubtract", 2, FALSE),
     Sig("ExprMultiply", 0, TRUE),
     Sig("ExprDivide", 2, FALSE),
     Sig("ExprMod", 2, FALSE),
     Sig("ExprAbs", 1, FALSE),
     Sig("ExprCeil", 1, FALSE),
     Sig("ExprFloor", 1, FALSE),
     Sig("ExprRound", 2, FALSE),
     Sig("ExprPow", 2, FALSE),
     Sig("ExprSqrt", 1, FALSE),
     Sig("ExprLog", 2, FALSE),
     Sig("ExprLn", 1, FALSE),
     Sig("ExprCmp", 2, FALSE),
     Sig("ExprEq", 2, FALSE),
     Sig("ExprNe", 2, FALSE),
     Sig("ExprGt", 2, FALSE),
     Sig("ExprGte", 2, FALSE),
     Sig("ExprLt", 2, FALSE),
     Sig("ExprLte", 2, FALSE),
     Sig("ExprBoolAnd", 0, TRUE),
     Sig("ExprBoolOr", 0, TRUE),
     Sig("ExprBoolNot", 1, FALSE),
     Sig("ExprCond", 3, FALSE),
     Sig("ExprIfNull", 2, FALSE),
     Sig("ExprSwitch", 2, FALSE)}

DataConstructors ==
    {Sig("ExprConcat", 0, TRUE),
     Sig("ExprSubstr", 3, FALSE),
     Sig("ExprToLower", 1, FALSE),
     Sig("ExprToUpper", 1, FALSE),
     Sig("ExprTrim", 2, FALSE),
     Sig("ExprLTrim", 2, FALSE),
     Sig("ExprRTrim", 2, FALSE),
     Sig("ExprStrLenCP", 1, FALSE),
     Sig("ExprRegexMatch", 3, FALSE),
     Sig("ExprRegexFind", 3, FALSE),
     Sig("ExprRegexFindAll", 3, FALSE),
     Sig("ExprSplit", 2, FALSE),
     Sig("ExprReplaceOne", 3, FALSE),
     Sig("ExprReplaceAll", 3, FALSE),
     Sig("ExprArrayElemAt", 2, FALSE),
     Sig("ExprConcatArrays", 0, TRUE),
     Sig("ExprFilter", 3, FALSE),
     Sig("ExprIsArray", 1, FALSE),
     Sig("ExprMap", 3, FALSE),
     Sig("ExprReduce", 3, FALSE),
     Sig("ExprSlice", 1, TRUE),
     Sig("ExprIn", 2, FALSE),
     Sig("ExprIndexOfArray", 2, FALSE),
     Sig("ExprReverseArray", 1, FALSE),
     Sig("ExprSortArray", 2, FALSE),
     Sig("ExprZip", 3, FALSE),
     Sig("ExprObjectToArray", 1, FALSE),
     Sig("ExprArrayToObject", 1, FALSE),
     Sig("ExprDateFromString", 3, FALSE),
     Sig("ExprDateToString", 3, FALSE),
     Sig("ExprDateAdd", 3, FALSE),
     Sig("ExprDateSubtract", 3, FALSE),
     Sig("ExprDateDiff", 3, FALSE),
     Sig("ExprDateTrunc", 2, FALSE),
     Sig("ExprYear", 1, FALSE),
     Sig("ExprMonth", 1, FALSE),
     Sig("ExprDayOfMonth", 1, FALSE),
     Sig("ExprHour", 1, FALSE),
     Sig("ExprMinute", 1, FALSE),
     Sig("ExprSecond", 1, FALSE),
     Sig("ExprMillisecond", 1, FALSE),
     Sig("ExprDayOfWeek", 1, FALSE),
     Sig("ExprDayOfYear", 1, FALSE),
     Sig("ExprISOWeek", 1, FALSE),
     Sig("ExprISOWeekYear", 1, FALSE),
     Sig("ExprConvert", 4, FALSE),
     Sig("ExprToBool", 1, FALSE),
     Sig("ExprToInt", 1, FALSE),
     Sig("ExprToLong", 1, FALSE),
     Sig("ExprToDouble", 1, FALSE),
     Sig("ExprToDecimal", 1, FALSE),
     Sig("ExprToString", 1, FALSE),
     Sig("ExprToObjectId", 1, FALSE),
     Sig("ExprToDate", 1, FALSE),
     Sig("ExprType", 1, FALSE),
     Sig("ExprIsNumber", 1, FALSE)}

AccConstructors ==
    {Sig("AccSum", 1, FALSE),
     Sig("AccAvg", 1, FALSE),
     Sig("AccMin", 1, FALSE),
     Sig("AccMax", 1, FALSE),
     Sig("AccFirst", 1, FALSE),
     Sig("AccLast", 1, FALSE),
     Sig("AccPush", 1, FALSE),
     Sig("AccAddToSet", 1, FALSE),
     Sig("AccStdDevPop", 1, FALSE),
     Sig("AccStdDevSamp", 1, FALSE),
     Sig("AccCount", 0, FALSE),
     Sig("AccFirstN", 2, FALSE),
     Sig("AccLastN", 2, FALSE),
     Sig("AccMaxN", 2, FALSE),
     Sig("AccMinN", 2, FALSE),
     Sig("AccTop", 2, FALSE),
     Sig("AccBottom", 2, FALSE),
     Sig("AccTopN", 3, FALSE),
     Sig("AccBottomN", 3, FALSE),
     Sig("AccMedian", 2, FALSE),
     Sig("AccPercentile", 3, FALSE),
     Sig("ExprSetEquals", 0, TRUE),
     Sig("ExprSetIntersection", 0, TRUE),
     Sig("ExprSetUnion", 0, TRUE),
     Sig("ExprSetDifference", 2, FALSE),
     Sig("ExprSetIsSubset", 2, FALSE),
     Sig("ExprAnyElementTrue", 1, FALSE),
     Sig("ExprAllElementsTrue", 1, FALSE),
     Sig("ExprMergeObjects", 0, TRUE),
     Sig("ExprGetField", 2, FALSE),
     Sig("ExprSetField", 3, FALSE),
     Sig("ExprUnsetField", 2, FALSE),
     Sig("ExprLiteral", 1, FALSE),
     Sig("ExprRand", 0, FALSE),
     Sig("ExprSampleRate", 1, FALSE),
     Sig("ExprLet", 2, FALSE)}

Constructors == CoreConstructors \cup DataConstructors \cup AccConstructors

\* a call gmqb.name(...) with n arguments has the argument count of a
\* constructor of that name
Accepts(name, n) ==
    \E s \in Constructors :
        /\ s.name = name
        /\ IF s.variadic THEN n >= s.fixed ELSE n = s.fixed

(***************************************************************************)
(* C26  For every expression operator translateExpression recognizes, the  *)
(* builder function it emits is an existing constructor of package gmqb    *)
(* and the number of arguments it emits is one the constructor accepts.    *)
(***************************************************************************)
C26_Emitted(key, c) ==
    ~c.raw =>
        /\ EndsWith(raw, AddFieldsText(key, GmqbCall(c.fn, Join(RenderArgs(c.args), Sep))))
        /\ Accepts(c.fn, Len(c.args))

C26_Case(key, val) == C26_Emitted(key, ExprCase(val.d[1].k, val.d[1].v))

C26_Site ==
    /\ PipelineCall
    /\ IsFieldStage(input.val, "$addFields")
    /\ IsExprDoc(FieldValue(input.val))
    /\ FieldValue(input.val).d[1].k \in KnownExprOps

C26_Constructors == C26_Site => C26_Case(FieldKey(input.val), FieldValue(input.val))

(***************************************************************************)
(* C27: every key of an operator document is dispatched on its own.  An    *)
(* operator document that holds $regex together with a sibling $options    *)
(* key (what the builder's Regex(field, pattern, options) produces for     *)
(* non-empty options) does not translate: the filter fails, and when       *)
(* $regex and $options are its only keys the error is the unsupported      *)
(* operator error for $options.  An operator document of $regex alone      *)
(* gives the fragment Regex(field, formatValue(pattern), "") and no         *)
(* translation error.                                                      *)
(***************************************************************************)
OperatorKeys(val) == {val.d[i].k : i \in 1..Len(val.d)}

C27_Dispatch(field, val) ==
    /\ {"$regex", "$options"} \subseteq OperatorKeys(val) => Failed
    /\ OperatorKeys(val) = {"$regex", "$options"} =>
            err.msg = "unsupported operator: $options"
    /\ (Len(val.d) = 1 /\ val.d[1].k = "$regex") =>
            /\ ~Failed
            /\ raw = <<"gmqb.Regex", "(", GoQuote(field), ",", " ">>
                     \o formatValue(val.d[1].v)
                     \o <<",", " ", "\"\"", ")">>

\* a filter of one plain field over an operator document
C27_Site ==
    /\ FilterCall
    /\ Len(input.val.d) = 1
    /\ input.val.d[1].k \notin LogicalKeys
    /\ HasOps(input.val.d[1].v)

C27_RegexOptions ==
    C27_Site => C27_Dispatch(input.val.d[1].k, input.val.d[1].v)

C27_Witness ==
    /\ FilterCall
    /\ input.val = Regex("a", "p", "i")
    /\ Failed
    /\ err.msg = "unsupported operator: $options"

(***************************************************************************)
(* C28: the two arguments of a binary fixed-arity expression operator are  *)
(* written by formatValue: an argument that is a single-key '$'-prefixed   *)
(* expression document is emitted as a bson.D literal and never as a       *)
(* builder call.  The same document as an argument of a unary,             *)
(* accumulator, variadic or structured operator is emitted as the builder  *)
(* call of its operator.                                                   *)
(***************************************************************************)
\* an expression document that translateExpression turns into a builder call
IsCallDoc(v) == IsExprDoc(v) /\ ~ExprCase(v.d[1].k, v.d[1].v).raw

\* the builder call of an expression document
IsCallNode(node, v) ==
    /\ node.n = "call"
    /\ node.fn = "gmqb." \o ExprCase(v.d[1].k, v.d[1].v).fn

C28_Argument(op, v, text, node) ==
    IsCallDoc(v) =>
        IF op \in BinaryExprOps
        THEN /\ text = formatValue(v)
             /\ Head(text) = "bson.D"
             /\ ~err.set => IsRawPairNode(node, v.d[1].k) /\ ~IsCallNode(node, v)
        ELSE /\ Head(text) = "gmqb." \o ExprCase(v.d[1].k, v.d[1].v).fn
             /\ ~err.set => IsCallNode(node, v)

\* every argument of the emitted call, its text and its parsed text
C28_Call(key, op, c, texts, node) ==
    /\ EndsWith(raw, AddFieldsText(key, GmqbCall(c.fn, Join(texts, Sep))))
    /\ \A i \in 1..Len(c.args) :
            C28_Argument(op, c.args[i].v, texts[i],
                         IF err.set THEN node ELSE node.args[i])

C28_Case(key, op, c) ==
    ~c.raw => C28_Call(key, op, c, RenderArgs(c.args),
                       IF err.set THEN [n |-> "bad"]
                       ELSE AddFieldArg(ParseSource(code).node))

C28_BinaryLiteral ==
    (PipelineCall /\ IsFieldStage(input.val, "$addFields")
        /\ IsExprDoc(FieldValue(input.val))
        /\ FieldValue(input.val).d[1].k \in KnownExprOps)
    => C28_Case(FieldKey(input.val), FieldValue(input.val).d[1].k,
                ExprCase(FieldValue(input.val).d[1].k,
                         FieldValue(input.val).d[1].v))

C28_Witness ==
    /\ PipelineCall
    /\ input.val = Arr(<<Doc(<<E("$addFields", Doc(<<E("a",
                         Doc(<<E("$gte",
                               Arr(<<Int32(4),
                                     Doc(<<E("$toUpper", Str("$a"))>>)>>))>>))>>))>>)>>)
    /\ raw = <<"gmqb.NewPipeline", "(", ")", ".", "\n",
               "AddFields", "(", "gmqb.AddFieldsSpec", "(", "\n", "\t",
               "gmqb.AddField", "(", "\"a\"", ",", " ",
               "gmqb.ExprGte", "(", "4", ",", " ",
               "bson.D", "{", "{", "\"$toUpper\"", ",", " ", "\"$a\"", "}", "}",
               ")",
               ")", ",", "\n", ")", ")">>
    /\ ~err.set

(***************************************************************************)
(* C29: empty containers are not rejected by the translator.  A            *)
(* $and/$or/$nor whose array of documents is empty or holds an empty       *)
(* document, and a $addFields/$set/$project/$sort stage whose document is  *)
(* empty, give no translation error but a fragment with an empty argument  *)
(* slot; Generate then returns a formatting error together with the        *)
(* unformatted fragment.                                                   *)
(***************************************************************************)
\* Generate returned the unformatted fragment with a formatting error
FormattingFailed ==
    /\ err.set
    /\ err.msg = "failed to format generated code: syntax error"
    /\ raw # <<>>
    /\ code = raw

\* a comma that follows an opening bracket or another comma, white space
\* apart: an argument slot with nothing in it
BlankUntil(text, i, j) ==
    \A k \in (i + 1)..(j - 1) : text[k] \in {"\n", "\t", " "}
HasEmptySlot(text) ==
    \E i, j \in 1..Len(text) :
        /\ i < j
        /\ text[i] \in {"(", "{", ","}
        /\ text[j] = ","
        /\ BlankUntil(text, i, j)

HasEmptyDocument(val) ==
    Len(val.a) = 0 \/ \E i \in 1..Len(val.a) : Len(val.a[i].d) = 0

\* a filter of one $and/$or/$nor over documents that all translate
C29_LogicalSite ==
    /\ FilterCall
    /\ Len(input.val.d) = 1
    /\ input.val.d[1].k \in LogicalKeys
    /\ IsArrayOfDocs(input.val.d[1].v)
    /\ AllTranslate(SubResults(input.val.d[1].v))
    /\ HasEmptyDocument(input.val.d[1].v)

\* a pipeline whose last stage is a field stage over the empty document
C29_StageSite ==
    /\ PipelineCall
    /\ Len(input.val.a) > 0
    /\ \E st \in FieldStageOps : LastStage(input.val) = Doc(<<E(st, Doc(<<>>))>>)
    /\ EarlierTranslate(input.val)

EmptyStageOpening(st) ==
    CASE st = "$addFields" -> <<"AddFields", "(", "gmqb.AddFieldsSpec", "(">>
      [] st = "$set" -> <<"SetFields", "(", "gmqb.AddFieldsSpec", "(">>
      [] st = "$project" -> <<"Project", "(", "bson.D", "{">>
      [] st = "$sort" -> <<"Sort", "(", "bson.D", "{">>

C29_EmptyStage(st) ==
    EndsWith(raw, EmptyStageOpening(st) \o <<"\n", "\t", ",", "\n">>
                  \o (IF st \in {"$project", "$sort"} THEN <<"}", ")">>
                      ELSE <<")", ")">>))

C29_EmptyContainers ==
    /\ C29_LogicalSite => (FormattingFailed /\ HasEmptySlot(raw))
    /\ C29_StageSite =>
          /\ FormattingFailed
          /\ HasEmptySlot(raw)
          /\ C29_EmptyStage(LastStage(input.val).d[1].k)

C29_Witness ==
    /\ FilterCall
    /\ input.val = Doc(<<E("$or", Arr(<<Doc(<<E("a", Str("A"))>>), Doc(<<>>)>>))>>)
    /\ raw = <<"gmqb.Or", "(", "\n",
               "gmqb.Eq", "(", "\"a\"", ",", " ", "\"A\"", ")", ",", "\n",
               ",", "\n", ")">>
    /\ code = raw
    /\ err.set

C29_WitnessStage ==
    /\ PipelineCall
    /\ input.val = Arr(<<Doc(<<E("$project", Doc(<<>>))>>)>>)
    /\ code = raw
    /\ err.set

(***************************************************************************)
(* C30: a $limit or $skip stage whose value is no int32, int64 or float64  *)
(* (a string, a document, an array, null) is translated without error to   *)
(* Limit(0) / Skip(0): the value is dropped, it is neither reported as an  *)
(* error nor kept in a RawStage fallback.                                  *)
(***************************************************************************)
C30_Shape(stageOp, v) ==
    /\ ~err.set
    /\ EndsWith(raw, <<NumericMethod(stageOp), "(", "0", ")">>)
    /\ ParseSource(code).node.m = NumericMethod(stageOp)
    /\ ParseSource(code).node.margs = <<[n |-> "tok", tok |-> "0"]>>

C30_NonNumeric ==
    \A stageOp \in {"$limit", "$skip"} :
        (PipelineCall /\ Len(input.val.a) > 0
            /\ IsStage(LastStage(input.val), stageOp)
            /\ ~IsNumeric(LastStage(input.val).d[1].v)
            /\ EarlierTranslate(input.val))
        => /\ C30_Shape(stageOp, LastStage(input.val).d[1].v)
           /\ Len(input.val.a) = 1 =>
                 code = <<"gmqb.NewPipeline", "(", ")", ".", "\n",
                          NumericMethod(stageOp), "(", "0", ")">>

C30_Witness ==
    /\ PipelineCall
    /\ input.val = Arr(<<Doc(<<E("$skip", Doc(<<E("a", Int32(4))>>))>>)>>)
    /\ code = <<"gmqb.NewPipeline", "(", ")", ".", "\n", "Skip", "(", "0", ")">>
    /\ ~err.set

====
